---------------------------- MODULE Spec2Model ----------------------------
(***************************************************************************)
(* A model of the invoice OCR extraction / validation core:                *)
(*   src/extraction/layout_analyzer.py   LayoutAnalyzer                    *)
(*   src/extraction/patterns.py          InvoicePatterns                   *)
(*   src/extraction/field_extractor.py   FieldExtractor                    *)
(*   src/validation/validator.py         InvoiceValidator                  *)
(*                                                                         *)
(* Conventions.                                                            *)
(*  - A text is a sequence of one-character strings.                       *)
(*  - Positions are the pixel centres of a 1000 x 1000 image, so that a    *)
(*    normalized coordinate c/1000 is written as the integer c: 0.20 is    *)
(*    200, the alignment threshold 0.02 is 20.                             *)
(*  - Confidences are in thousandths: 0.95 is 950.                         *)
(*  - A Python object reference to an OCR element is the element's index   *)
(*    in ocr_results, so two equal elements remain two elements.           *)
(***************************************************************************)
EXTENDS Integers, Sequences, FiniteSets, TLC

VARIABLES
    ocr_results,    \* LayoutAnalyzer.analyze's argument: the OCR elements
    layout,         \* the value analyze returned, or NoLayout before the call
    fields,         \* the value extract_all_fields returned, or NoFields
    now,            \* the clock: the ordinal of the current day
    validation_results, \* InvoiceValidator.validation_results, the one list
                    \* of the one validator every call goes through
    calls,          \* the validate_all calls made on that validator: each
                    \* one's argument, position and returned report
    argument,       \* the argument of a call of a text function
    result,         \* the value that call returned, or NoResult before it
    max_retries,    \* InvoicePipeline.max_retries
    stats,          \* InvoicePipeline.stats, without the processing time
    frames          \* the process_invoice calls that have not returned, the
                    \* innermost last: each one's retry_count and position

vars == <<ocr_results, layout, fields, now, validation_results, calls,
          argument, result, max_retries, stats, frames>>

----------------------------------------------------------------------------
(* Generic helpers *)

\* a function over 1..n as the explicit tuple of its values
Tuple(f) == SubSeq(f, 1, Len(f))

Abs(n) == IF n < 0 THEN -n ELSE n

Range(s) == {s[i] : i \in 1..Len(s)}

RECURSIVE Concat(_)
Concat(ss) == IF ss = <<>> THEN <<>> ELSE Head(ss) \o Concat(Tail(ss))

\* list.sort / sorted with a key are stable: an element goes before the first
\* element whose key is strictly greater, so equal keys keep their input
\* order.  key is a function from the elements of s to integers.
RECURSIVE InsertByKey(_, _, _)
InsertByKey(e, s, key) ==
    IF s = <<>> THEN <<e>>
    ELSE IF key[e] < key[Head(s)] THEN <<e>> \o s
    ELSE <<Head(s)>> \o InsertByKey(e, Tail(s), key)

RECURSIVE SortedFrom(_, _, _)
SortedFrom(s, acc, key) ==
    IF s = <<>> THEN acc
    ELSE SortedFrom(Tail(s), InsertByKey(Head(s), acc, key), key)

SortedByKey(s, key) == SortedFrom(s, <<>>, key)

----------------------------------------------------------------------------
(* Texts *)

UpperCase ==
    <<"A","B","C","D","E","F","G","H","I","J","K","L","M",
      "N","O","P","Q","R","S","T","U","V","W","X","Y","Z">>

LowerCase ==
    <<"a","b","c","d","e","f","g","h","i","j","k","l","m",
      "n","o","p","q","r","s","t","u","v","w","x","y","z">>

Digits == {"0","1","2","3","4","5","6","7","8","9"}

lower_char(c) ==
    IF \E i \in 1..26 : UpperCase[i] = c
    THEN LowerCase[CHOOSE i \in 1..26 : UpperCase[i] = c]
    ELSE c

upper_char(c) ==
    IF \E i \in 1..26 : LowerCase[i] = c
    THEN UpperCase[CHOOSE i \in 1..26 : LowerCase[i] = c]
    ELSE c

\* str.lower
lower(t) == Tuple([i \in 1..Len(t) |-> lower_char(t[i])])

\* str.upper
upper(t) == Tuple([i \in 1..Len(t) |-> upper_char(t[i])])

\* `kw in t` on strings
In(kw, t) == \E i \in 0..(Len(t) - Len(kw)) : SubSeq(t, i + 1, i + Len(kw)) = kw

----------------------------------------------------------------------------
(* Optional values: Python's None and a present value *)

None == <<>>

Some(v) == <<v>>

Val(o) == o[1]

\* the optional value o or, when it is None, the optional value other
OrElse(o, other) == IF o # None THEN o ELSE other

\* the value of the optional value o or, when it is None, default
ValOr(o, default) == IF o # None THEN Val(o) ELSE default

----------------------------------------------------------------------------
(* Python regular expressions (import re).                                 *)
(* A pattern is a tree of records; Match returns, in the order in which    *)
(* the backtracking matcher of re tries them, every way the pattern        *)
(* matches at a position: the end position, the spans of the capturing     *)
(* groups and lastindex.  The first of them is the match re reports.       *)

\* Characters outside ASCII are written as their code point.
POUND == "U+00A3"
EURO == "U+20AC"
YEN == "U+00A5"
RUPEE == "U+20B9"
SHEQEL == "U+20AA"
RIAL_SIGN == "U+FDFC"
DEGREE == "U+00B0"

\* Arabic-Indic digits U+0660 .. U+0669, in order
ArabicDigits ==
    <<"U+0660","U+0661","U+0662","U+0663","U+0664",
      "U+0665","U+0666","U+0667","U+0668","U+0669">>

WesternDigits == <<"0","1","2","3","4","5","6","7","8","9">>

Letters == Range(UpperCase) \cup Range(LowerCase)

\* the Arabic letters that occur in the patterns and keywords
ArabicLetters ==
    {"U+0625", "U+0627", "U+0628", "U+0629", "U+062A", "U+062C", "U+062D", "U+062E",
     "U+062F", "U+0631", "U+0632", "U+0633", "U+0634", "U+0635", "U+0636", "U+0639",
     "U+063A", "U+0641", "U+0642", "U+0643", "U+0644", "U+0645", "U+0646", "U+0647",
     "U+0648", "U+0649", "U+064A"}

\* \d of a str pattern: any Unicode decimal digit
ReDigit == Digits \cup Range(ArabicDigits)

\* \w of a str pattern, over the modelled characters
ReWord == Letters \cup ArabicLetters \cup ReDigit \cup {"_"}

\* \s
ReSpace == {" ", "\t", "\n"}

Inf == -1

MaxGroups == 3

NoSpan == <<-1, -1>>

NoCaps == [spans |-> Tuple([g \in 1..MaxGroups |-> NoSpan]), lastindex |-> 0]

ReLit(s) == [t |-> "lit", s |-> s]
ReCls(cs) == [t |-> "set", cs |-> cs, neg |-> FALSE]
ReNotCls(cs) == [t |-> "set", cs |-> cs, neg |-> TRUE]
ReSeq(rs) == [t |-> "seq", rs |-> rs]
ReAlt(rs) == [t |-> "alt", rs |-> rs]
ReRep(r, min, max) == [t |-> "rep", r |-> r, min |-> min, max |-> max]
ReOpt(r) == ReRep(r, 0, 1)
ReStar(r) == ReRep(r, 0, Inf)
RePlus(r) == ReRep(r, 1, Inf)
ReGrp(n, r) == [t |-> "grp", n |-> n, r |-> r]
ReWB == [t |-> "wb"]
ReBOL == [t |-> "bol"]
ReEOL == [t |-> "eol"]
\* (?=r)
ReLook(r) == [t |-> "look", r |-> r]

\* a character against a literal character or a class, under re.IGNORECASE
SameChar(a, b, ic) == a = b \/ (ic /\ lower_char(a) = lower_char(b))

InClass(ch, cs, ic) ==
    ch \in cs \/ (ic /\ (lower_char(ch) \in cs \/ upper_char(ch) \in cs))

\* \b at position i: between s[i] and s[i+1]
AtWordBoundary(s, i) ==
    LET left == i >= 1 /\ s[i] \in ReWord
        right == i < Len(s) /\ s[i + 1] \in ReWord
    IN  left # right

RECURSIVE Match(_, _, _, _, _)
RECURSIVE MatchSeq(_, _, _, _, _, _)
RECURSIVE MatchRep(_, _, _, _, _, _)

Match(r, s, i, c, ic) ==
    CASE r.t = "lit" ->
            IF /\ i + Len(r.s) <= Len(s)
               /\ \A k \in 1..Len(r.s) : SameChar(s[i + k], r.s[k], ic)
            THEN <<[pos |-> i + Len(r.s), c |-> c]>>
            ELSE <<>>
      [] r.t = "set" ->
            IF i < Len(s) /\ (InClass(s[i + 1], r.cs, ic) # r.neg)
            THEN <<[pos |-> i + 1, c |-> c]>>
            ELSE <<>>
      [] r.t = "seq" -> MatchSeq(r.rs, 1, s, i, c, ic)
      [] r.t = "alt" ->
            Concat(Tuple([k \in 1..Len(r.rs) |-> Match(r.rs[k], s, i, c, ic)]))
      [] r.t = "rep" -> MatchRep(r, 0, s, i, c, ic)
      [] r.t = "grp" ->
            LET inner == Match(r.r, s, i, c, ic)
            IN  Tuple([k \in 1..Len(inner) |->
                    [pos |-> inner[k].pos,
                     c |-> [spans |-> [inner[k].c.spans EXCEPT ![r.n] = <<i, inner[k].pos>>],
                            lastindex |-> r.n]]])
      [] r.t = "wb" ->
            IF AtWordBoundary(s, i) THEN <<[pos |-> i, c |-> c]>> ELSE <<>>
      [] r.t = "bol" -> IF i = 0 THEN <<[pos |-> i, c |-> c]>> ELSE <<>>
      \* $ matches at the end and before a newline that ends the string
      [] r.t = "eol" ->
            IF i = Len(s) \/ (i = Len(s) - 1 /\ s[Len(s)] = "\n")
            THEN <<[pos |-> i, c |-> c]>>
            ELSE <<>>
      \* a lookahead matches without consuming
      [] r.t = "look" ->
            IF Match(r.r, s, i, c, ic) # <<>> THEN <<[pos |-> i, c |-> c]>> ELSE <<>>

MatchSeq(rs, k, s, i, c, ic) ==
    IF k > Len(rs) THEN <<[pos |-> i, c |-> c]>>
    ELSE LET first == Match(rs[k], s, i, c, ic)
         IN  Concat(Tuple([j \in 1..Len(first) |->
                        MatchSeq(rs, k + 1, s, first[j].pos, first[j].c, ic)]))

\* greedy repetition: one more iteration is tried before stopping
MatchRep(r, n, s, i, c, ic) ==
    LET one == IF r.max = Inf \/ n < r.max THEN Match(r.r, s, i, c, ic) ELSE <<>>
        more == Concat(Tuple([j \in 1..Len(one) |->
                          IF one[j].pos > i
                          THEN MatchRep(r, n + 1, s, one[j].pos, one[j].c, ic)
                          ELSE <<>>]))
        stop == IF n >= r.min THEN <<[pos |-> i, c |-> c]>> ELSE <<>>
    IN  more \o stop

NoMatch == [found |-> FALSE]

\* pattern.match anchored at position i
MatchAt(r, s, i, ic) ==
    LET first_of(ms) ==
            IF ms = <<>> THEN NoMatch
            ELSE [found |-> TRUE, start |-> i, end |-> ms[1].pos,
                  spans |-> ms[1].c.spans, lastindex |-> ms[1].c.lastindex]
    IN  first_of(Match(r, s, i, NoCaps, ic))

\* the positions from i on at which the pattern matches, in order
MatchStarts(r, s, i, ic) ==
    SelectSeq(Tuple([k \in 1..(Len(s) - i + 1) |-> i + k - 1]),
              LAMBDA j : Match(r, s, j, NoCaps, ic) # <<>>)

\* the match at the first of the positions a pattern matches at
LeftmostAt(r, s, starts, ic) ==
    IF starts = <<>> THEN NoMatch ELSE MatchAt(r, s, Head(starts), ic)

\* pattern.search from position i on: the leftmost match
SearchFrom(r, s, i, ic) == LeftmostAt(r, s, MatchStarts(r, s, i, ic), ic)

\* pattern.search(text)
Search(r, s, ic) == SearchFrom(r, s, 0, ic)

\* pattern.search(text) for an entry of a pattern dict
SearchPattern(pattern, s) == Search(pattern.re, s, pattern.ic)

\* match.group()
Group0(m, s) == SubSeq(s, m.start + 1, m.end)

\* match.group(n): None when the group took no part in the match
GroupN(m, s, n) ==
    IF m.spans[n] = NoSpan THEN None
    ELSE Some(SubSeq(s, m.spans[n][1] + 1, m.spans[n][2]))

\* the spans of re.finditer: non-overlapping matches, left to right
RECURSIVE FindAllFrom(_, _, _, _)
FindAllFrom(r, s, i, ic) ==
    LET and_later(m) ==
            IF ~ m.found THEN <<>>
            ELSE <<m>> \o FindAllFrom(r, s, IF m.end > m.start THEN m.end ELSE m.end + 1, ic)
    IN  and_later(SearchFrom(r, s, i, ic))

FindAll(r, s, ic) == FindAllFrom(r, s, 0, ic)

----------------------------------------------------------------------------
(* InvoicePatterns: the compiled patterns and the keyword lists *)

\* date_patterns['iso_date'] = \b(\d{4})[-/](\d{1,2})[-/](\d{1,2})\b
re_iso_date ==
    ReSeq(<<ReWB, ReGrp(1, ReRep(ReCls(ReDigit), 4, 4)), ReCls({"-","/"}),
        ReGrp(2, ReRep(ReCls(ReDigit), 1, 2)), ReCls({"-","/"}), ReGrp(3,
        ReRep(ReCls(ReDigit), 1, 2)), ReWB>>)

\* date_patterns['dmy_slash'] = \b(\d{1,2})/(\d{1,2})/(\d{4})\b
re_dmy_slash ==
    ReSeq(<<ReWB, ReGrp(1, ReRep(ReCls(ReDigit), 1, 2)), ReLit(<<"/">>),
        ReGrp(2, ReRep(ReCls(ReDigit), 1, 2)), ReLit(<<"/">>), ReGrp(3,
        ReRep(ReCls(ReDigit), 4, 4)), ReWB>>)

\* date_patterns['dmy_dash'] = \b(\d{1,2})-(\d{1,2})-(\d{4})\b
re_dmy_dash ==
    ReSeq(<<ReWB, ReGrp(1, ReRep(ReCls(ReDigit), 1, 2)), ReLit(<<"-">>),
        ReGrp(2, ReRep(ReCls(ReDigit), 1, 2)), ReLit(<<"-">>), ReGrp(3,
        ReRep(ReCls(ReDigit), 4, 4)), ReWB>>)

\* date_patterns['mdy_slash'] = \b(\d{1,2})/(\d{1,2})/(\d{4})\b
re_mdy_slash ==
    ReSeq(<<ReWB, ReGrp(1, ReRep(ReCls(ReDigit), 1, 2)), ReLit(<<"/">>),
        ReGrp(2, ReRep(ReCls(ReDigit), 1, 2)), ReLit(<<"/">>), ReGrp(3,
        ReRep(ReCls(ReDigit), 4, 4)), ReWB>>)

\* date_patterns['month_name'] = \b(\d{1,2})\s+(Jan|Feb|Mar|Apr|May|Jun|Jul|Aug|Sep|Oct|Nov|Dec)[a-z]*\s+(\d{4})\b (re.IGNORECASE)
re_month_name ==
    ReSeq(<<ReWB, ReGrp(1, ReRep(ReCls(ReDigit), 1, 2)),
        RePlus(ReCls(ReSpace)), ReGrp(2, ReAlt(<<ReLit(<<"J","a","n">>),
        ReLit(<<"F","e","b">>), ReLit(<<"M","a","r">>),
        ReLit(<<"A","p","r">>), ReLit(<<"M","a","y">>),
        ReLit(<<"J","u","n">>), ReLit(<<"J","u","l">>),
        ReLit(<<"A","u","g">>), ReLit(<<"S","e","p">>),
        ReLit(<<"O","c","t">>), ReLit(<<"N","o","v">>),
        ReLit(<<"D","e","c">>)>>)), ReStar(ReCls(Range(LowerCase))),
        RePlus(ReCls(ReSpace)), ReGrp(3, ReRep(ReCls(ReDigit), 4, 4)),
        ReWB>>)

\* date_patterns['name_month'] = \b(Jan|Feb|Mar|Apr|May|Jun|Jul|Aug|Sep|Oct|Nov|Dec)[a-z]*\s+(\d{1,2}),?\s+(\d{4})\b (re.IGNORECASE)
re_name_month ==
    ReSeq(<<ReWB, ReGrp(1, ReAlt(<<ReLit(<<"J","a","n">>),
        ReLit(<<"F","e","b">>), ReLit(<<"M","a","r">>),
        ReLit(<<"A","p","r">>), ReLit(<<"M","a","y">>),
        ReLit(<<"J","u","n">>), ReLit(<<"J","u","l">>),
        ReLit(<<"A","u","g">>), ReLit(<<"S","e","p">>),
        ReLit(<<"O","c","t">>), ReLit(<<"N","o","v">>),
        ReLit(<<"D","e","c">>)>>)), ReStar(ReCls(Range(LowerCase))),
        RePlus(ReCls(ReSpace)), ReGrp(2, ReRep(ReCls(ReDigit), 1, 2)),
        ReOpt(ReLit(<<",">>)), RePlus(ReCls(ReSpace)), ReGrp(3,
        ReRep(ReCls(ReDigit), 4, 4)), ReWB>>)

\* date_patterns['arabic_date'] = [\u0660-\u0669]{1,2}[-/][\u0660-\u0669]{1,2}[-/][\u0660-\u0669]{4}
re_arabic_date ==
    ReSeq(<<ReRep(ReCls(Range(ArabicDigits)), 1, 2), ReCls({"-","/"}),
        ReRep(ReCls(Range(ArabicDigits)), 1, 2), ReCls({"-","/"}),
        ReRep(ReCls(Range(ArabicDigits)), 4, 4)>>)

\* date_patterns['compact_date'] = \b(20\d{2})(\d{2})(\d{2})\b
re_compact_date ==
    ReSeq(<<ReWB, ReGrp(1, ReSeq(<<ReLit(<<"2","0">>),
        ReRep(ReCls(ReDigit), 2, 2)>>)), ReGrp(2, ReRep(ReCls(ReDigit), 2,
        2)), ReGrp(3, ReRep(ReCls(ReDigit), 2, 2)), ReWB>>)

\* self.date_patterns, in dict order
date_patterns ==
    << [name |-> "iso_date", re |-> re_iso_date, ic |-> FALSE],
       [name |-> "dmy_slash", re |-> re_dmy_slash, ic |-> FALSE],
       [name |-> "dmy_dash", re |-> re_dmy_dash, ic |-> FALSE],
       [name |-> "mdy_slash", re |-> re_mdy_slash, ic |-> FALSE],
       [name |-> "month_name", re |-> re_month_name, ic |-> TRUE],
       [name |-> "name_month", re |-> re_name_month, ic |-> TRUE],
       [name |-> "arabic_date", re |-> re_arabic_date, ic |-> FALSE],
       [name |-> "compact_date", re |-> re_compact_date, ic |-> FALSE] >>

\* number_patterns['decimal_comma'] = \b\d{1,3}(?:,\d{3})*(?:\.\d{2,}|\.\d{1,2})?\b
re_decimal_comma ==
    ReSeq(<<ReWB, ReRep(ReCls(ReDigit), 1, 3),
        ReStar(ReSeq(<<ReLit(<<",">>), ReRep(ReCls(ReDigit), 3, 3)>>)),
        ReOpt(ReSeq(<<ReLit(<<".">>), ReAlt(<<ReRep(ReCls(ReDigit), 2,
        Inf), ReRep(ReCls(ReDigit), 1, 2)>>)>>)), ReWB>>)

\* number_patterns['decimal_space'] = \b\d{1,3}(?:\s\d{3})*(?:\.\d{2,}|\.\d{1,2})?\b
re_decimal_space ==
    ReSeq(<<ReWB, ReRep(ReCls(ReDigit), 1, 3),
        ReStar(ReSeq(<<ReCls(ReSpace), ReRep(ReCls(ReDigit), 3, 3)>>)),
        ReOpt(ReSeq(<<ReLit(<<".">>), ReAlt(<<ReRep(ReCls(ReDigit), 2,
        Inf), ReRep(ReCls(ReDigit), 1, 2)>>)>>)), ReWB>>)

\* number_patterns['decimal_dot'] = \b\d{1,3}(?:\.\d{3})*(?:,\d{2,}|,\d{1,2})?\b
re_decimal_dot ==
    ReSeq(<<ReWB, ReRep(ReCls(ReDigit), 1, 3),
        ReStar(ReSeq(<<ReLit(<<".">>), ReRep(ReCls(ReDigit), 3, 3)>>)),
        ReOpt(ReSeq(<<ReLit(<<",">>), ReAlt(<<ReRep(ReCls(ReDigit), 2,
        Inf), ReRep(ReCls(ReDigit), 1, 2)>>)>>)), ReWB>>)

\* number_patterns['simple_number'] = \b\d+(?:\.\d{1,2})?\b
re_simple_number ==
    ReSeq(<<ReWB, RePlus(ReCls(ReDigit)), ReOpt(ReSeq(<<ReLit(<<".">>),
        ReRep(ReCls(ReDigit), 1, 2)>>)), ReWB>>)

\* number_patterns['arabic_number'] = [\u0660-\u0669]+(?:\.[\u0660-\u0669]+)?
re_arabic_number ==
    ReSeq(<<RePlus(ReCls(Range(ArabicDigits))),
        ReOpt(ReSeq(<<ReLit(<<".">>),
        RePlus(ReCls(Range(ArabicDigits)))>>))>>)

\* number_patterns['with_currency'] = (?:[$\u00a3\u20ac\u00a5\u20b9\u20aa\ufdfc])\s*(\d{1,3}(?:[,.\s]\d{3})*(?:[.,]\d{2})?)|(\d{1,3}(?:[,.\s]\d{3})*(?:[.,]\d{2})?)\s*(?:[$\u00a3\u20ac\u00a5\u20b9\u20aa\ufdfcSAR|EGP|USD|AED|QAR|KWD|OMR|BHD|JOD|LBP|SYP|IQD|\u0631\u064a\u0627\u0644|\u062c\u0646\u064a\u0647|\u062f\u064a\u0646\u0627\u0631|\u062f\u0631\u0647\u0645]) (re.IGNORECASE)
re_with_currency ==
    ReAlt(<<ReSeq(<<ReCls({"$","U+00A3","U+20AC","U+00A5","U+20B9","U+20AA","U+FDFC"}),
        ReStar(ReCls(ReSpace)), ReGrp(1, ReSeq(<<ReRep(ReCls(ReDigit), 1,
        3), ReStar(ReSeq(<<ReCls(ReSpace \cup {",","."}),
        ReRep(ReCls(ReDigit), 3, 3)>>)), ReOpt(ReSeq(<<ReCls({".",","}),
        ReRep(ReCls(ReDigit), 2, 2)>>))>>))>>), ReSeq(<<ReGrp(2,
        ReSeq(<<ReRep(ReCls(ReDigit), 1, 3),
        ReStar(ReSeq(<<ReCls(ReSpace \cup {",","."}), ReRep(ReCls(ReDigit),
        3, 3)>>)), ReOpt(ReSeq(<<ReCls({".",","}), ReRep(ReCls(ReDigit), 2,
        2)>>))>>)), ReStar(ReCls(ReSpace)),
        ReCls({"$","U+00A3","U+20AC","U+00A5","U+20B9","U+20AA","U+FDFC","S","A","R","|","E","G","P","U","D","Q","K","W","O","M","B","H","J","L","Y","I","U+0631","U+064A","U+0627","U+0644","U+062C","U+0646","U+0647","U+062F","U+0645"})>>)>>)

\* self.number_patterns, in dict order
number_patterns ==
    << [name |-> "decimal_comma", re |-> re_decimal_comma, ic |-> FALSE],
       [name |-> "decimal_space", re |-> re_decimal_space, ic |-> FALSE],
       [name |-> "decimal_dot", re |-> re_decimal_dot, ic |-> FALSE],
       [name |-> "simple_number", re |-> re_simple_number, ic |-> FALSE],
       [name |-> "arabic_number", re |-> re_arabic_number, ic |-> FALSE],
       [name |-> "with_currency", re |-> re_with_currency, ic |-> TRUE] >>

\* invoice_number_patterns['standard'] = \b(?:INV|INVOICE|INV#|NO|#|N\u00b0)[-/#\s]*(\d{4,})\b (re.IGNORECASE)
re_standard ==
    ReSeq(<<ReWB, ReAlt(<<ReLit(<<"I","N","V">>),
        ReLit(<<"I","N","V","O","I","C","E">>), ReLit(<<"I","N","V","#">>),
        ReLit(<<"N","O">>), ReLit(<<"#">>), ReLit(<<"N","U+00B0">>)>>),
        ReStar(ReCls(ReSpace \cup {"-","/","#"})), ReGrp(1,
        ReRep(ReCls(ReDigit), 4, Inf)), ReWB>>)

\* invoice_number_patterns['with_year'] = \b([A-Z]{2,4})[-/#\s]*(20\d{2})[-/#\s]*(\d{3,})\b (re.IGNORECASE)
re_with_year ==
    ReSeq(<<ReWB, ReGrp(1, ReRep(ReCls(Range(UpperCase)), 2, 4)),
        ReStar(ReCls(ReSpace \cup {"-","/","#"})), ReGrp(2,
        ReSeq(<<ReLit(<<"2","0">>), ReRep(ReCls(ReDigit), 2, 2)>>)),
        ReStar(ReCls(ReSpace \cup {"-","/","#"})), ReGrp(3,
        ReRep(ReCls(ReDigit), 3, Inf)), ReWB>>)

\* invoice_number_patterns['sequential'] = \b\d{5,8}\b
re_sequential ==
    ReSeq(<<ReWB, ReRep(ReCls(ReDigit), 5, 8), ReWB>>)

\* invoice_number_patterns['arabic_marker'] = (?:\u0641\u0627\u062a\u0648\u0631\u0629|\u0631\u0642\u0645|\u0631\u0642\u0645 \u0627\u0644\u0641\u0627\u062a\u0648\u0631\u0629)\s*[:#\s]*(\d+) (re.IGNORECASE)
re_arabic_marker ==
    ReSeq(<<ReAlt(<<ReLit(<<"U+0641","U+0627","U+062A","U+0648","U+0631","U+0629">>),
        ReLit(<<"U+0631","U+0642","U+0645">>),
        ReLit(<<"U+0631","U+0642","U+0645"," ","U+0627","U+0644","U+0641","U+0627","U+062A","U+0648","U+0631","U+0629">>)>>),
        ReStar(ReCls(ReSpace)), ReStar(ReCls(ReSpace \cup {":","#"})),
        ReGrp(1, RePlus(ReCls(ReDigit)))>>)

\* self.invoice_number_patterns, in dict order
invoice_number_patterns ==
    << [name |-> "standard", re |-> re_standard, ic |-> TRUE],
       [name |-> "with_year", re |-> re_with_year, ic |-> TRUE],
       [name |-> "sequential", re |-> re_sequential, ic |-> FALSE],
       [name |-> "arabic_marker", re |-> re_arabic_marker, ic |-> TRUE] >>

\* tax_patterns['tax_id'] = \b(?:TAX|VAT|TIN|EIN|TRN)[-\s#:]*([A-Z0-9]{8,15})\b (re.IGNORECASE)
re_tax_id ==
    ReSeq(<<ReWB, ReAlt(<<ReLit(<<"T","A","X">>), ReLit(<<"V","A","T">>),
        ReLit(<<"T","I","N">>), ReLit(<<"E","I","N">>),
        ReLit(<<"T","R","N">>)>>),
        ReStar(ReCls(ReSpace \cup {"-","#",":"})), ReGrp(1,
        ReRep(ReCls(Range(UpperCase) \cup Digits), 8, 15)), ReWB>>)

\* tax_patterns['tax_percentage'] = (?:VAT|TAX|\u0636\u0631\u064a\u0628\u0629)?\s*(\d{1,2}(?:\.\d{1,2})?)\s*% (re.IGNORECASE)
re_tax_percentage ==
    ReSeq(<<ReOpt(ReAlt(<<ReLit(<<"V","A","T">>), ReLit(<<"T","A","X">>),
        ReLit(<<"U+0636","U+0631","U+064A","U+0628","U+0629">>)>>)),
        ReStar(ReCls(ReSpace)), ReGrp(1, ReSeq(<<ReRep(ReCls(ReDigit), 1,
        2), ReOpt(ReSeq(<<ReLit(<<".">>), ReRep(ReCls(ReDigit), 1,
        2)>>))>>)), ReStar(ReCls(ReSpace)), ReLit(<<"%">>)>>)

\* tax_patterns['arabic_tax'] = (?:\u0627\u0644\u0631\u0642\u0645 \u0627\u0644\u0636\u0631\u064a\u0628\u064a|\u0631\u0642\u0645 \u0636\u0631\u064a\u0628\u064a)\s*[:]*\s*(\d+)
re_arabic_tax ==
    ReSeq(<<ReAlt(<<ReLit(<<"U+0627","U+0644","U+0631","U+0642","U+0645"," ","U+0627","U+0644","U+0636","U+0631","U+064A","U+0628","U+064A">>),
        ReLit(<<"U+0631","U+0642","U+0645"," ","U+0636","U+0631","U+064A","U+0628","U+064A">>)>>),
        ReStar(ReCls(ReSpace)), ReStar(ReLit(<<":">>)),
        ReStar(ReCls(ReSpace)), ReGrp(1, RePlus(ReCls(ReDigit)))>>)

\* self.tax_patterns, in dict order
tax_patterns ==
    << [name |-> "tax_id", re |-> re_tax_id, ic |-> TRUE],
       [name |-> "tax_percentage", re |-> re_tax_percentage, ic |-> TRUE],
       [name |-> "arabic_tax", re |-> re_arabic_tax, ic |-> FALSE] >>

\* phone_patterns['international'] = \+\d{1,4}[-.\s]?\d{1,4}[-.\s]?\d{3,4}[-.\s]?\d{4}
re_international ==
    ReSeq(<<ReLit(<<"+">>), ReRep(ReCls(ReDigit), 1, 4),
        ReOpt(ReCls(ReSpace \cup {"-","."})), ReRep(ReCls(ReDigit), 1, 4),
        ReOpt(ReCls(ReSpace \cup {"-","."})), ReRep(ReCls(ReDigit), 3, 4),
        ReOpt(ReCls(ReSpace \cup {"-","."})), ReRep(ReCls(ReDigit), 4, 4)>>)

\* phone_patterns['local'] = \(?\d{3}\)?[-.\s]?\d{3}[-.\s]?\d{4}
re_local ==
    ReSeq(<<ReOpt(ReLit(<<"(">>)), ReRep(ReCls(ReDigit), 3, 3),
        ReOpt(ReLit(<<")">>)), ReOpt(ReCls(ReSpace \cup {"-","."})),
        ReRep(ReCls(ReDigit), 3, 3), ReOpt(ReCls(ReSpace \cup {"-","."})),
        ReRep(ReCls(ReDigit), 4, 4)>>)

\* phone_patterns['simple'] = \b0\d{9}\b
re_simple ==
    ReSeq(<<ReWB, ReLit(<<"0">>), ReRep(ReCls(ReDigit), 9, 9), ReWB>>)

\* self.phone_patterns, in dict order
phone_patterns ==
    << [name |-> "international", re |-> re_international, ic |-> FALSE],
       [name |-> "local", re |-> re_local, ic |-> FALSE],
       [name |-> "simple", re |-> re_simple, ic |-> FALSE] >>

\* self.email_pattern = \b[A-Za-z0-9._%+-]+@[A-Za-z0-9.-]+\.[A-Z|a-z]{2,}\b
email_pattern ==
    ReSeq(<<ReWB,
        RePlus(ReCls(Range(UpperCase) \cup Range(LowerCase) \cup Digits \cup {".","_","%","+","-"})),
        ReLit(<<"@">>),
        RePlus(ReCls(Range(UpperCase) \cup Range(LowerCase) \cup Digits \cup {".","-"})),
        ReLit(<<".">>),
        ReRep(ReCls(Range(UpperCase) \cup Range(LowerCase) \cup {"|"}), 2,
        Inf), ReWB>>)

\* currency_patterns['symbols'] = [$\u00a3\u20ac\u00a5\u20b9\u20aa\ufdfc]
re_currency_symbols ==
    ReCls({"$","U+00A3","U+20AC","U+00A5","U+20B9","U+20AA","U+FDFC"})

\* currency_patterns['codes'] = \b(SAR|EGP|USD|EUR|GBP|AED|QAR|KWD|OMR|BHD|JOD|LBP|SYP|IQD)\b (re.IGNORECASE)
re_currency_codes ==
    ReSeq(<<ReWB, ReGrp(1, ReAlt(<<ReLit(<<"S","A","R">>),
        ReLit(<<"E","G","P">>), ReLit(<<"U","S","D">>),
        ReLit(<<"E","U","R">>), ReLit(<<"G","B","P">>),
        ReLit(<<"A","E","D">>), ReLit(<<"Q","A","R">>),
        ReLit(<<"K","W","D">>), ReLit(<<"O","M","R">>),
        ReLit(<<"B","H","D">>), ReLit(<<"J","O","D">>),
        ReLit(<<"L","B","P">>), ReLit(<<"S","Y","P">>),
        ReLit(<<"I","Q","D">>)>>)), ReWB>>)

\* currency_patterns['arabic'] = (\u0631\u064a\u0627\u0644|\u062c\u0646\u064a\u0647|\u062f\u064a\u0646\u0627\u0631|\u062f\u0631\u0647\u0645|\u0644\u064a\u0631\u0629)
re_currency_arabic ==
    ReGrp(1, ReAlt(<<ReLit(<<"U+0631","U+064A","U+0627","U+0644">>),
        ReLit(<<"U+062C","U+0646","U+064A","U+0647">>),
        ReLit(<<"U+062F","U+064A","U+0646","U+0627","U+0631">>),
        ReLit(<<"U+062F","U+0631","U+0647","U+0645">>),
        ReLit(<<"U+0644","U+064A","U+0631","U+0629">>)>>))

\* invoice_number_keywords['en']
invoice_number_keywords_en ==
    << <<"i","n","v","o","i","c","e"," ","n","u","m","b","e","r">>,
       <<"i","n","v","o","i","c","e"," ","n","o">>,
       <<"i","n","v","o","i","c","e"," ","#">>,
       <<"i","n","v"," ","n","o">>,
       <<"i","n","v","#">>,
       <<"n","u","m","b","e","r">>,
       <<"n","o",".">>,
       <<"r","e","f","e","r","e","n","c","e">>,
       <<"r","e","f">>,
       <<"d","o","c","u","m","e","n","t"," ","n","u","m","b","e","r">>,
       <<"b","i","l","l"," ","n","o">> >>

\* invoice_number_keywords['ar']
invoice_number_keywords_ar ==
    << <<"U+0631","U+0642","U+0645"," ","U+0627","U+0644","U+0641","U+0627","U+062A","U+0648","U+0631","U+0629">>,
       <<"U+0631","U+0642","U+0645"," ","U+0641","U+0627","U+062A","U+0648","U+0631","U+0629">>,
       <<"U+0641","U+0627","U+062A","U+0648","U+0631","U+0629"," ","U+0631","U+0642","U+0645">>,
       <<"U+0631","U+0642","U+0645">>,
       <<"U+0627","U+0644","U+0645","U+0631","U+062C","U+0639">> >>

\* total_keywords['en']
total_keywords_en ==
    << <<"t","o","t","a","l">>,
       <<"g","r","a","n","d"," ","t","o","t","a","l">>,
       <<"t","o","t","a","l"," ","a","m","o","u","n","t">>,
       <<"a","m","o","u","n","t"," ","d","u","e">>,
       <<"t","o","t","a","l"," ","d","u","e">>,
       <<"b","a","l","a","n","c","e"," ","d","u","e">>,
       <<"n","e","t"," ","t","o","t","a","l">>,
       <<"f","i","n","a","l"," ","t","o","t","a","l">>,
       <<"t","o","t","a","l"," ","p","a","y","a","b","l","e">>,
       <<"a","m","o","u","n","t"," ","p","a","y","a","b","l","e">> >>

\* total_keywords['ar']
total_keywords_ar ==
    << <<"U+0627","U+0644","U+0645","U+062C","U+0645","U+0648","U+0639">>,
       <<"U+0627","U+0644","U+0625","U+062C","U+0645","U+0627","U+0644","U+064A">>,
       <<"U+0627","U+0644","U+0645","U+0628","U+0644","U+063A"," ","U+0627","U+0644","U+0625","U+062C","U+0645","U+0627","U+0644","U+064A">>,
       <<"U+0627","U+0644","U+0625","U+062C","U+0645","U+0627","U+0644","U+064A"," ","U+0627","U+0644","U+0643","U+0644","U+064A">>,
       <<"U+0627","U+0644","U+0645","U+0628","U+0644","U+063A"," ","U+0627","U+0644","U+0645","U+0633","U+062A","U+062D","U+0642">>,
       <<"U+0627","U+0644","U+0645","U+062C","U+0645","U+0648","U+0639"," ","U+0627","U+0644","U+0643","U+0644","U+064A">>,
       <<"U+0625","U+062C","U+0645","U+0627","U+0644","U+064A"," ","U+0627","U+0644","U+0645","U+0628","U+0644","U+063A">> >>

\* subtotal_keywords['en']
subtotal_keywords_en ==
    << <<"s","u","b","t","o","t","a","l">>,
       <<"s","u","b","-","t","o","t","a","l">>,
       <<"s","u","b"," ","t","o","t","a","l">>,
       <<"a","m","o","u","n","t"," ","b","e","f","o","r","e"," ","t","a","x">>,
       <<"n","e","t"," ","a","m","o","u","n","t">>,
       <<"b","e","f","o","r","e"," ","t","a","x">> >>

\* subtotal_keywords['ar']
subtotal_keywords_ar ==
    << <<"U+0627","U+0644","U+0645","U+062C","U+0645","U+0648","U+0639"," ","U+0627","U+0644","U+0641","U+0631","U+0639","U+064A">>,
       <<"U+0642","U+0628","U+0644"," ","U+0627","U+0644","U+0636","U+0631","U+064A","U+0628","U+0629">>,
       <<"U+0627","U+0644","U+0645","U+0628","U+0644","U+063A"," ","U+0642","U+0628","U+0644"," ","U+0627","U+0644","U+0636","U+0631","U+064A","U+0628","U+0629">>,
       <<"U+0627","U+0644","U+0645","U+062C","U+0645","U+0648","U+0639"," ","U+0642","U+0628","U+0644"," ","U+0627","U+0644","U+0636","U+0631","U+064A","U+0628","U+0629">> >>

\* tax_keywords['en']
tax_keywords_en ==
    << <<"t","a","x">>,
       <<"v","a","t">>,
       <<"s","a","l","e","s"," ","t","a","x">>,
       <<"t","a","x"," ","a","m","o","u","n","t">>,
       <<"v","a","t"," ","a","m","o","u","n","t">>,
       <<"v","a","l","u","e"," ","a","d","d","e","d"," ","t","a","x">>,
       <<"g","s","t">>,
       <<"t","a","x","a","t","i","o","n">> >>

\* tax_keywords['ar']
tax_keywords_ar ==
    << <<"U+0636","U+0631","U+064A","U+0628","U+0629">>,
       <<"U+0627","U+0644","U+0636","U+0631","U+064A","U+0628","U+0629">>,
       <<"U+0636","U+0631","U+064A","U+0628","U+0629"," ","U+0627","U+0644","U+0642","U+064A","U+0645","U+0629"," ","U+0627","U+0644","U+0645","U+0636","U+0627","U+0641","U+0629">>,
       <<"U+0642","U+064A","U+0645","U+0629"," ","U+0627","U+0644","U+0636","U+0631","U+064A","U+0628","U+0629">>,
       <<"U+0645","U+0628","U+0644","U+063A"," ","U+0627","U+0644","U+0636","U+0631","U+064A","U+0628","U+0629">>,
       <<"U+0636",".","U+0642",".","U+0645">> >>

\* discount_keywords['en']
discount_keywords_en ==
    << <<"d","i","s","c","o","u","n","t">>,
       <<"r","e","d","u","c","t","i","o","n">>,
       <<"d","e","d","u","c","t","i","o","n">>,
       <<"r","e","b","a","t","e">>,
       <<"o","f","f">>,
       <<"d","i","s","c","o","u","n","t"," ","a","m","o","u","n","t">>,
       <<"t","o","t","a","l"," ","d","i","s","c","o","u","n","t">> >>

\* discount_keywords['ar']
discount_keywords_ar ==
    << <<"U+062E","U+0635","U+0645">>,
       <<"U+062A","U+062E","U+0641","U+064A","U+0636">>,
       <<"U+062D","U+0633","U+0645">>,
       <<"U+0627","U+0644","U+062E","U+0635","U+0645">>,
       <<"U+0642","U+064A","U+0645","U+0629"," ","U+0627","U+0644","U+062E","U+0635","U+0645">> >>

\* customer_keywords['en']
customer_keywords_en ==
    << <<"c","u","s","t","o","m","e","r">>,
       <<"b","u","y","e","r">>,
       <<"t","o">>,
       <<"b","i","l","l"," ","t","o">>,
       <<"b","i","l","l","e","d"," ","t","o">>,
       <<"c","l","i","e","n","t">>,
       <<"c","u","s","t","o","m","e","r"," ","n","a","m","e">>,
       <<"p","u","r","c","h","a","s","e","r">>,
       <<"s","o","l","d"," ","t","o">> >>

\* customer_keywords['ar']
customer_keywords_ar ==
    << <<"U+0627","U+0644","U+0639","U+0645","U+064A","U+0644">>,
       <<"U+0627","U+0644","U+0645","U+0634","U+062A","U+0631","U+064A">>,
       <<"U+0625","U+0644","U+0649">>,
       <<"U+0627","U+0644","U+0639","U+0645","U+064A","U+0644">>,
       <<"U+0627","U+0633","U+0645"," ","U+0627","U+0644","U+0639","U+0645","U+064A","U+0644">>,
       <<"U+0627","U+0644","U+0645","U+0633","U+062A","U+0641","U+064A","U+062F">>,
       <<"U+0627","U+0644","U+0632","U+0628","U+0648","U+0646">> >>

----------------------------------------------------------------------------
(* InvoicePatterns: helper methods *)

\* A float amount is the decimal [w, f]: w whole units and f hundredths,
\* 0 <= f < 100.  The modelled amount texts carry at most two fractional
\* digits, so the decimal is the float's value.
Dec(w, f) == [w |-> w, f |-> f]

Zero == Dec(0, 0)

\* the amount in hundredths, and back
Cents(d) == d.w * 100 + d.f

FromCents(c) == Dec(c \div 100, c % 100)

FirstIndex(seq, ch) == CHOOSE i \in 1..Len(seq) : seq[i] = ch /\ \A j \in 1..(i - 1) : seq[j] # ch

\* InvoicePatterns.normalize_arabic_numbers
normalize_arabic_numbers(text) ==
    Tuple([i \in 1..Len(text) |->
        IF text[i] \in Range(ArabicDigits)
        THEN WesternDigits[FirstIndex(ArabicDigits, text[i])]
        ELSE text[i]])

\* str.replace(old, '') for a single character old
remove_char(text, old) == SelectSeq(text, LAMBDA c : c # old)

\* str.replace(old, new) for single characters
replace_char(text, old, new) ==
    Tuple([i \in 1..Len(text) |-> IF text[i] = old THEN new ELSE text[i]])

\* str.strip()
RECURSIVE lstrip(_)
lstrip(text) ==
    IF text # <<>> /\ Head(text) \in ReSpace THEN lstrip(Tail(text)) ELSE text

RECURSIVE rstrip(_)
rstrip(text) ==
    IF text # <<>> /\ text[Len(text)] \in ReSpace
    THEN rstrip(SubSeq(text, 1, Len(text) - 1))
    ELSE text

strip(text) == rstrip(lstrip(text))

\* re.sub(pattern, '', text): the text with every match cut out
RECURSIVE cut_matches(_, _, _)
cut_matches(text, ms, from) ==
    IF ms = <<>> THEN SubSeq(text, from + 1, Len(text))
    ELSE SubSeq(text, from + 1, Head(ms).start) \o cut_matches(text, Tail(ms), Head(ms).end)

re_sub_empty(r, text, ic) == cut_matches(text, FindAll(r, text, ic), 0)

\* [$£€¥₹₪﷼]
re_clean_symbols ==
    ReCls({"$","U+00A3","U+20AC","U+00A5","U+20B9","U+20AA","U+FDFC"})

\* \b(?:SAR|EGP|USD|EUR|GBP|AED|QAR|KWD)\b (re.IGNORECASE)
re_clean_codes ==
    ReSeq(<<ReWB, ReAlt(<<ReLit(<<"S","A","R">>), ReLit(<<"E","G","P">>),
        ReLit(<<"U","S","D">>), ReLit(<<"E","U","R">>),
        ReLit(<<"G","B","P">>), ReLit(<<"A","E","D">>),
        ReLit(<<"Q","A","R">>), ReLit(<<"K","W","D">>)>>), ReWB>>)

\* str.count(ch)
count_char(text, ch) == Cardinality({i \in 1..Len(text) : text[i] = ch})

\* str.rfind(ch): the 0-based index of the last occurrence
rfind(text, ch) ==
    CHOOSE i \in 0..(Len(text) - 1) :
        text[i + 1] = ch /\ \A j \in (i + 1)..(Len(text) - 1) : text[j + 1] # ch

\* int() of a run of Western digits
RECURSIVE digits_value(_)
digits_value(ds) ==
    IF ds = <<>> THEN 0
    ELSE digits_value(SubSeq(ds, 1, Len(ds) - 1)) * 10
         + (FirstIndex(WesternDigits, ds[Len(ds)]) - 1)

\* float(text) of what clean_amount passes to it: digits with at most one
\* '.', and at least one digit; anything else raises ValueError.
float_parses(text) ==
    /\ \A i \in 1..Len(text) : text[i] \in Digits \cup {"."}
    /\ count_char(text, ".") <= 1
    /\ \E i \in 1..Len(text) : text[i] \in Digits

float_value(text) ==
    IF count_char(text, ".") = 0 THEN Dec(digits_value(text), 0)
    ELSE LET dot == FirstIndex(text, ".")
             whole == SubSeq(text, 1, dot - 1)
             frac == SubSeq(text, dot + 1, Len(text))
             two == SubSeq(frac \o <<"0", "0">>, 1, 2)
         IN  Dec(digits_value(whole), digits_value(two))

\* clean_amount taking every comma for a thousands separator
resolve_separators_comma_thousands(amount_str) == remove_char(amount_str, ",")

\* the decimal / thousands separator rules of clean_amount
resolve_separators(amount_str) ==
    IF "," \in Range(amount_str) /\ "." \in Range(amount_str)
    THEN IF rfind(amount_str, ",") > rfind(amount_str, ".")
         THEN replace_char(remove_char(amount_str, "."), ",", ".")
         ELSE remove_char(amount_str, ",")
    ELSE IF "," \in Range(amount_str)
    THEN IF /\ count_char(amount_str, ",") = 1
            /\ Len(amount_str) - FirstIndex(amount_str, ",") <= 2
         THEN replace_char(amount_str, ",", ".")
         ELSE remove_char(amount_str, ",")
    ELSE amount_str

\* the try / except of clean_amount around float(amount_str)
parsed_amount(amount_str) ==
    IF float_parses(amount_str) THEN float_value(amount_str) ELSE Zero

\* InvoicePatterns.clean_amount on a present string (None gives 0.0 too)
clean_amount(amount_str) ==
    IF amount_str = <<>> THEN Zero
    ELSE parsed_amount(resolve_separators(remove_char(strip(
             re_sub_empty(re_clean_codes,
                 re_sub_empty(re_clean_symbols,
                     normalize_arabic_numbers(amount_str), FALSE), TRUE)), " ")))

USD == <<"U","S","D">>
SAR == <<"S","A","R">>

\* symbol_map of find_currency
symbol_map(sym) ==
    CASE sym = "$" -> USD
      [] sym = POUND -> <<"G","B","P">>
      [] sym = EURO -> <<"E","U","R">>
      [] sym = YEN -> <<"J","P","Y">>
      [] sym = RUPEE -> <<"I","N","R">>
      [] sym = SHEQEL -> <<"I","L","S">>
      [] sym = RIAL_SIGN -> SAR
      [] OTHER -> USD

\* arabic_map of find_currency
arabic_map(name) ==
    CASE name = <<"U+0631","U+064A","U+0627","U+0644">> -> SAR
      [] name = <<"U+062C","U+0646","U+064A","U+0647">> -> <<"E","G","P">>
      [] name = <<"U+062F","U+064A","U+0646","U+0627","U+0631">> -> <<"K","W","D">>
      [] name = <<"U+062F","U+0631","U+0647","U+0645">> -> <<"A","E","D">>
      [] name = <<"U+0644","U+064A","U+0631","U+0629">> -> <<"L","B","P">>
      [] OTHER -> SAR

\* InvoicePatterns.find_currency
find_currency(text) ==
    LET by_symbol(match) ==
            IF match.found THEN Some(symbol_map(Group0(match, text)[1])) ELSE None
        by_code(match) ==
            IF match.found THEN Some(upper(Val(GroupN(match, text, 1)))) ELSE None
        by_arabic(match) ==
            IF match.found THEN Some(arabic_map(Val(GroupN(match, text, 1)))) ELSE None
    IN  ValOr(by_symbol(Search(re_currency_symbols, text, FALSE)),
            ValOr(by_code(Search(re_currency_codes, text, TRUE)),
                ValOr(by_arabic(Search(re_currency_arabic, text, FALSE)), USD)))

----------------------------------------------------------------------------
(* LayoutAnalyzer *)

\* self.zones, in the insertion order of the dict
ZoneOrder == <<"header", "vendor", "items", "totals", "footer">>

zones ==
    [header |-> [y_start |-> 0,   y_end |-> 200],
     vendor |-> [y_start |-> 200, y_end |-> 350],
     items  |-> [y_start |-> 350, y_end |-> 750],
     totals |-> [y_start |-> 750, y_end |-> 950],
     footer |-> [y_start |-> 950, y_end |-> 1000]]

ZoneKeys == Range(ZoneOrder) \cup {"unknown"}

proximity_threshold == 50

horizontal_alignment_threshold == 20

kv_max_distance == 300

\* Zone.contains with the upper end excluded
contains_half_open(zone, normalized_y) ==
    zone.y_start <= normalized_y /\ normalized_y < zone.y_end

\* Zone.contains
contains(zone, normalized_y) ==
    zone.y_start <= normalized_y /\ normalized_y <= zone.y_end


\* _assign_to_zones without the break: every zone that contains the y-centre
assigned_zones_no_break(norm_y) ==
    LET hits == SelectSeq(ZoneOrder, LAMBDA z : contains(zones[z], norm_y))
    IN  IF hits = <<>> THEN <<"unknown">> ELSE hits

\* The zones an element with this y-centre is appended to in the loop of
\* _assign_to_zones: the first zone of self.zones that contains it (break),
\* or 'unknown' when none does.
assigned_zones(norm_y) ==
    LET hits == SelectSeq(ZoneOrder, LAMBDA z : contains(zones[z], norm_y))
    IN  IF hits = <<>> THEN <<"unknown">> ELSE <<Head(hits)>>

\* LayoutAnalyzer._assign_to_zones.  A zone the Python dict has no key for is
\* the empty list here: every reader uses zones.get(name, []).
assign_to_zones(els) ==
    LET idx == [i \in 1..Len(els) |-> i]
        \* key=(y, x), compared lexicographically; x is below 10000
        key == [i \in 1..Len(els) |-> els[i].y * 10000 + els[i].x]
    IN  [z \in ZoneKeys |->
            SortedByKey(
                SelectSeq(idx, LAMBDA i : z \in Range(assigned_zones(els[i].y))),
                key)]

\* current_line.sort(key=x)
sort_line(els, line) == SortedByKey(line, [i \in Range(line) |-> els[i].x])

\* the loop of _group_by_lines comparing against self.proximity_threshold
RECURSIVE walk_lines_proximity(_, _, _, _)
walk_lines_proximity(els, rest, current_line, lines) ==
    IF rest = <<>>
    THEN Append(lines, sort_line(els, current_line))
    ELSE LET element == Head(rest)
             last_y == els[current_line[Len(current_line)]].y
             current_y == els[element].y
         IN  IF Abs(current_y - last_y) < proximity_threshold
             THEN walk_lines_proximity(els, Tail(rest), Append(current_line, element), lines)
             ELSE walk_lines_proximity(els, Tail(rest), <<element>>,
                                       Append(lines, sort_line(els, current_line)))

\* The loop of _group_by_lines over sorted_elements[1:]
RECURSIVE walk_lines(_, _, _, _)
walk_lines(els, rest, current_line, lines) ==
    IF rest = <<>>
    THEN Append(lines, sort_line(els, current_line))
    ELSE LET element == Head(rest)
             last_y == els[current_line[Len(current_line)]].y
             current_y == els[element].y
         IN  IF Abs(current_y - last_y) < horizontal_alignment_threshold
             THEN walk_lines(els, Tail(rest), Append(current_line, element), lines)
             ELSE walk_lines(els, Tail(rest), <<element>>,
                             Append(lines, sort_line(els, current_line)))

\* _group_by_lines walking the elements in input order, without the sort by y
group_by_lines_unsorted(els, ids) ==
    IF ids = <<>> THEN <<>>
    ELSE walk_lines(els, Tail(ids), <<Head(ids)>>, <<>>)

\* LayoutAnalyzer._group_by_lines over the elements ids (indices into els)
group_by_lines(els, ids) ==
    IF ids = <<>> THEN <<>>
    ELSE LET sorted_elements == SortedByKey(ids, [i \in Range(ids) |-> els[i].y])
         IN  walk_lines(els, Tail(sorted_elements), <<Head(sorted_elements)>>, <<>>)

\* label_keywords of _detect_key_value_pairs, English then Arabic
label_keywords ==
    << <<"i","n","v","o","i","c","e">>,
       <<"n","u","m","b","e","r">>,
       <<"d","a","t","e">>,
       <<"t","o","t","a","l">>,
       <<"s","u","b","t","o","t","a","l">>,
       <<"t","a","x">>,
       <<"v","a","t">>,
       <<"c","u","s","t","o","m","e","r">>,
       <<"v","e","n","d","o","r">>,
       <<"s","u","p","p","l","i","e","r">>,
       <<"a","m","o","u","n","t">>,
       <<"d","u","e">>,
       <<"p","a","y","m","e","n","t">>,
       <<"a","d","d","r","e","s","s">>,
       <<"p","h","o","n","e">>,
       <<"e","m","a","i","l">>,
       <<"d","e","s","c","r","i","p","t","i","o","n">>,
       <<"q","u","a","n","t","i","t","y">>,
       <<"q","t","y">>,
       <<"p","r","i","c","e">>,
       <<"u","n","i","t">>,
       <<"d","i","s","c","o","u","n","t">>,
       <<"U+0641","U+0627","U+062A","U+0648","U+0631","U+0629">>,
       <<"U+0631","U+0642","U+0645">>,
       <<"U+062A","U+0627","U+0631","U+064A","U+062E">>,
       <<"U+0627","U+0644","U+0645","U+062C","U+0645","U+0648","U+0639">>,
       <<"U+0627","U+0644","U+0625","U+062C","U+0645","U+0627","U+0644","U+064A">>,
       <<"U+0636","U+0631","U+064A","U+0628","U+0629">>,
       <<"U+0639","U+0645","U+064A","U+0644">>,
       <<"U+0645","U+0648","U+0631","U+062F">>,
       <<"U+0645","U+0628","U+0644","U+063A">>,
       <<"U+062F","U+0641","U+0639">>,
       <<"U+0639","U+0646","U+0648","U+0627","U+0646">>,
       <<"U+0647","U+0627","U+062A","U+0641">>,
       <<"U+0628","U+0631","U+064A","U+062F">>,
       <<"U+0648","U+0635","U+0641">>,
       <<"U+0643","U+0645","U+064A","U+0629">>,
       <<"U+0633","U+0639","U+0631">>,
       <<"U+062E","U+0635","U+0645">> >>

\* is_label or has_colon
is_label_like(text) ==
    \/ \E k \in Range(label_keywords) : In(k, lower(text))
    \/ In(<<":">>, text)

\* candidates of label i taking self.proximity_threshold for the same-line
\* test
kv_candidates_proximity(els, i) ==
    SelectSeq([j \in 1..Len(els) |-> j],
              LAMBDA j :
                  /\ j # i
                  /\ els[j].x > els[i].x
                  /\ Abs(els[j].y - els[i].y) < proximity_threshold
                  /\ Abs(els[j].x - els[i].x) < kv_max_distance)

\* candidates of label i, in the order of ocr_results
kv_candidates(els, i) ==
    SelectSeq([j \in 1..Len(els) |-> j],
              LAMBDA j :
                  /\ j # i
                  /\ els[j].x > els[i].x
                  /\ Abs(els[j].y - els[i].y) < horizontal_alignment_threshold
                  /\ Abs(els[j].x - els[i].x) < kv_max_distance)

\* candidates sorted by distance, taking candidates[-1]
kv_closest_last(els, i) ==
    LET c == kv_candidates(els, i)
        sorted == SortedByKey(c, [j \in Range(c) |-> els[j].x - els[i].x])
    IN  sorted[Len(sorted)]

\* candidates.sort(key=distance); candidates[0]
kv_closest(els, i) ==
    LET c == kv_candidates(els, i)
    IN  Head(SortedByKey(c, [j \in Range(c) |-> els[j].x - els[i].x]))

\* LayoutAnalyzer._detect_key_value_pairs.  A pair keeps the text, bbox and
\* confidence of its two elements: here their indices.
detect_key_value_pairs(els) ==
    Concat([i \in 1..Len(els) |->
        IF is_label_like(els[i].text) /\ kv_candidates(els, i) # <<>>
        THEN <<[label |-> i,
                value |-> kv_closest(els, i),
                distance |-> els[kv_closest(els, i)].x - els[i].x]>>
        ELSE <<>>])

RECURSIVE SumSeq(_)
SumSeq(s) == IF s = <<>> THEN 0 ELSE Head(s) + SumSeq(Tail(s))

\* np.mean of a non-empty list of integers, kept exact as sum / n
mean(values) == [sum |-> SumSeq(values), n |-> Len(values)]

MeanLess(a, b) == a.sum * b.n < b.sum * a.n

\* round(x, 2) of the normalized x, in pixels.  A pixel ending in 5 is a tie
\* that Python settles on the binary value of x/1000; the modelled inputs
\* hold no such x, and the tie goes to the even neighbour here.
round2(x) ==
    LET r == x % 10
    IN  IF r < 5 THEN x - r
        ELSE IF r > 5 THEN x - r + 10
        ELSE IF ((x - r) \div 10) % 2 = 0 THEN x - r ELSE x - r + 10

\* the keys of a dict filled in this order, in insertion order
RECURSIVE insertion_order(_, _)
insertion_order(ks, acc) ==
    IF ks = <<>> THEN acc
    ELSE insertion_order(Tail(ks),
                         IF Head(ks) \in Range(acc) THEN acc ELSE Append(acc, Head(ks)))

\* column_positions.sort()
RECURSIVE insert_mean(_, _)
insert_mean(m, s) ==
    IF s = <<>> THEN <<m>>
    ELSE IF MeanLess(m, Head(s)) THEN <<m>> \o s
    ELSE <<Head(s)>> \o insert_mean(m, Tail(s))

RECURSIVE sort_means(_, _)
sort_means(s, acc) ==
    IF s = <<>> THEN acc ELSE sort_means(Tail(s), insert_mean(Head(s), acc))

\* x_positions and column_positions of _detect_tables
column_positions(els, lines) ==
    LET flat == Concat(lines)
        rounded == [k \in 1..Len(flat) |-> round2(els[flat[k]].x)]
        keys == insertion_order(rounded, <<>>)
        x_values(key) ==
            LET members == SelectSeq(flat, LAMBDA i : round2(els[i].x) = key)
            IN  [k \in 1..Len(members) |-> els[members[k]].x]
        \* len(x_values) >= len(lines) * 0.5
        recurring == SelectSeq(keys, LAMBDA key : 2 * Len(x_values(key)) >= Len(lines))
    IN  sort_means([k \in 1..Len(recurring) |-> mean(x_values(recurring[k]))], <<>>)

\* ' | '.join(texts)
RECURSIVE join_pipe(_)
join_pipe(texts) ==
    IF texts = <<>> THEN <<>>
    ELSE IF Len(texts) = 1 THEN Head(texts)
    ELSE Head(texts) \o <<" ", "|", " ">> \o join_pipe(Tail(texts))

table_row(els, line) ==
    [elements |-> line,
     text |-> join_pipe([k \in 1..Len(line) |-> els[line[k]].text]),
     y_position |-> mean([k \in 1..Len(line) |-> els[line[k]].y])]

\* _detect_tables asking for at least 3 lines
detect_tables_three_lines(els, items_zone_elements) ==
    IF items_zone_elements = <<>> THEN <<>>
    ELSE LET lines == group_by_lines(els, items_zone_elements)
         IN  IF Len(lines) < 3 THEN <<>>
             ELSE LET cols == column_positions(els, lines)
                      table == [num_rows |-> Len(lines),
                                num_columns |-> Len(cols),
                                column_positions |-> cols,
                                rows |-> [r \in 1..Len(lines) |-> table_row(els, lines[r])]]
                  IN  <<table>>

\* LayoutAnalyzer._detect_tables
detect_tables(els, items_zone_elements) ==
    IF items_zone_elements = <<>> THEN <<>>
    ELSE LET lines == group_by_lines(els, items_zone_elements)
         IN  IF Len(lines) < 2 THEN <<>>
             ELSE LET cols == column_positions(els, lines)
                      table == [num_rows |-> Len(lines),
                                num_columns |-> Len(cols),
                                column_positions |-> cols,
                                rows |-> [r \in 1..Len(lines) |-> table_row(els, lines[r])]]
                  IN  IF table.num_rows > 1 THEN <<table>> ELSE <<>>

\* LayoutAnalyzer.analyze.  'all_elements' is ocr_results itself and is not
\* copied into the result.
analyze(els) ==
    IF els = <<>>
    THEN [zones |-> [z \in ZoneKeys |-> <<>>],
          lines |-> <<>>,
          key_value_pairs |-> <<>>,
          tables |-> <<>>]
    ELSE LET zs == assign_to_zones(els)
         IN  [zones |-> zs,
              lines |-> group_by_lines(els, [i \in 1..Len(els) |-> i]),
              key_value_pairs |-> detect_key_value_pairs(els),
              tables |-> detect_tables(els, zs["items"])]

----------------------------------------------------------------------------
(* LayoutAnalyzer.find_elements_near *)

\* the first non-None of a sequence of optional values
RECURSIVE FirstSomeFrom(_, _)
FirstSomeFrom(opts, k) ==
    IF k > Len(opts) THEN None
    ELSE LET o == opts[k]
         IN  IF o # None THEN o ELSE FirstSomeFrom(opts, k + 1)

FirstSome(opts) == FirstSomeFrom(opts, 1)

\* the last non-None of a sequence of optional values
LastSome(opts) ==
    LET hits == SelectSeq(Tuple(opts), LAMBDA o : o # None)
    IN  IF hits = <<>> THEN None ELSE hits[Len(hits)]

\* `element in direction of target within max_distance`
is_near(element, target, direction, max_distance) ==
    CASE direction = "right" ->
            /\ element.x > target.x
            /\ Abs(element.y - target.y) < horizontal_alignment_threshold
            /\ element.x - target.x < max_distance
      [] direction = "left" ->
            /\ element.x < target.x
            /\ Abs(element.y - target.y) < horizontal_alignment_threshold
            /\ target.x - element.x < max_distance
      [] direction = "below" ->
            /\ element.y > target.y
            /\ Abs(element.x - target.x) < proximity_threshold
            /\ element.y - target.y < max_distance
      [] direction = "above" ->
            /\ element.y < target.y
            /\ Abs(element.x - target.x) < proximity_threshold
            /\ target.y - element.y < max_distance
      [] OTHER -> FALSE

\* LayoutAnalyzer.find_elements_near over the elements ids of els.  The
\* reference is the first element whose text contains target_text, and
\* `element == target` compares the dicts, so an element equal to the
\* reference is skipped as well.
find_elements_near(els, ids, target_text, direction, max_distance) ==
    LET target_elements ==
            SelectSeq(ids, LAMBDA i : In(lower(target_text), lower(els[i].text)))
    IN  IF target_elements = <<>> THEN <<>>
        ELSE LET target == els[Head(target_elements)]
             IN  SelectSeq(ids, LAMBDA i :
                     /\ els[i] # target
                     /\ is_near(els[i], target, direction, max_distance))

----------------------------------------------------------------------------
(* FieldExtractor *)

\* the max_distance arguments of the find_elements_near calls
invoice_number_max_distance == 400

dates_max_distance == 300

amounts_max_distance == 400

\* any(kw in text for kw in keywords)
AnyIn(keywords, text) == \E k \in 1..Len(keywords) : In(keywords[k], text)

\* match.group(1) if match.lastindex else match.group(); None is kept as the
\* empty text where the caller tests `not amount_str`
group1_or_all(m, s) ==
    IF m.lastindex # 0
    THEN IF GroupN(m, s, 1) = None THEN <<>> ELSE Val(GroupN(m, s, 1))
    ELSE Group0(m, s)

\* the first pattern of invoice_number_patterns found in a nearby element
invoice_number_in(text) ==
    LET number_of(match) ==
            IF match.found THEN Some(strip(group1_or_all(match, text))) ELSE None
    IN  FirstSome([p \in 1..Len(invoice_number_patterns) |->
            number_of(SearchPattern(invoice_number_patterns[p], text))])

\* Strategy 1 of extract_invoice_number for one header element
invoice_number_by_keyword(els, header_elements, e) ==
    LET element == els[e]
        found(near_element, source, value) ==
            IF value = None THEN None
            ELSE Some([value |-> value,
                       confidence |-> (element.confidence + near_element.confidence) \div 2,
                       source |-> Some(source),
                       zone |-> Some("header")])
        first_number(near_element, numbers) ==
            IF numbers # <<>> /\ Head(numbers).end - Head(numbers).start >= 4
            THEN Some(Group0(Head(numbers), near_element.text))
            ELSE None
        english(nearby) ==
            FirstSome([n \in 1..Len(nearby) |->
                found(els[nearby[n]], "keyword_proximity",
                      invoice_number_in(els[nearby[n]].text))])
        arabic(nearby) ==
            FirstSome([n \in 1..Len(nearby) |->
                found(els[nearby[n]], "arabic_keyword_proximity",
                      first_number(els[nearby[n]],
                          FindAll(RePlus(ReCls(ReDigit)), els[nearby[n]].text, FALSE)))])
        by_language(nearby) ==
            OrElse(IF AnyIn(invoice_number_keywords_en, lower(element.text))
                   THEN english(nearby) ELSE None,
                   IF AnyIn(invoice_number_keywords_ar, element.text)
                   THEN arabic(nearby) ELSE None)
    IN  by_language(find_elements_near(els, header_elements, element.text,
                                       "right", invoice_number_max_distance))

\* Strategy 2 of extract_invoice_number for one header element
invoice_number_by_pattern(els, e) ==
    LET found(pattern, match) ==
            IF pattern.name # "sequential" /\ match.found
            THEN Some([value |-> Some(strip(group1_or_all(match, els[e].text))),
                       confidence |-> els[e].confidence,
                       source |-> Some("pattern_" \o pattern.name),
                       zone |-> Some("header")])
            ELSE None
        try(pattern) == found(pattern, SearchPattern(pattern, els[e].text))
    IN  FirstSome([p \in 1..Len(invoice_number_patterns) |->
            try(invoice_number_patterns[p])])

\* Strategy 3 of extract_invoice_number
invoice_number_by_pair(els, pairs) ==
    FirstSome([k \in 1..Len(pairs) |->
        IF AnyIn(invoice_number_keywords_en, lower(els[pairs[k].label].text))
        THEN Some([value |-> Some(els[pairs[k].value].text),
                   confidence |-> els[pairs[k].value].confidence,
                   source |-> Some("key_value_pair"),
                   zone |-> Some("header")])
        ELSE None])

no_invoice_number == [value |-> None, confidence |-> 0, source |-> None, zone |-> None]

\* FieldExtractor.extract_invoice_number
extract_invoice_number(els, lay) ==
    LET header_elements == lay.zones["header"]
    IN  ValOr(FirstSome([k \in 1..Len(header_elements) |->
                  invoice_number_by_keyword(els, header_elements, header_elements[k])]),
            ValOr(FirstSome([k \in 1..Len(header_elements) |->
                      invoice_number_by_pattern(els, header_elements[k])]),
                ValOr(invoice_number_by_pair(els, lay.key_value_pairs),
                      no_invoice_number)))

\* str.zfill(2) of a run of digits
zfill2(text) == IF Len(text) < 2 THEN <<"0">> \o text ELSE text

\* month_map.get(month_name.lower()[:3], '01')
month_map(key) ==
    CASE key = <<"j","a","n">> -> <<"0","1">>
      [] key = <<"f","e","b">> -> <<"0","2">>
      [] key = <<"m","a","r">> -> <<"0","3">>
      [] key = <<"a","p","r">> -> <<"0","4">>
      [] key = <<"m","a","y">> -> <<"0","5">>
      [] key = <<"j","u","n">> -> <<"0","6">>
      [] key = <<"j","u","l">> -> <<"0","7">>
      [] key = <<"a","u","g">> -> <<"0","8">>
      [] key = <<"s","e","p">> -> <<"0","9">>
      [] key = <<"o","c","t">> -> <<"1","0">>
      [] key = <<"n","o","v">> -> <<"1","1">>
      [] key = <<"d","e","c">> -> <<"1","2">>
      [] OTHER -> <<"0","1">>

\* f"{a}-{b}-{c}"
dashed(a, b, c) == a \o <<"-">> \o b \o <<"-">> \o c

\* the branch of _extract_date_from_text for a pattern that matched
format_date(pattern_name, m, text) ==
    LET g1 == Val(GroupN(m, text, 1))
        g2 == Val(GroupN(m, text, 2))
        g3 == Val(GroupN(m, text, 3))
    IN  CASE pattern_name = "iso_date" -> dashed(g1, zfill2(g2), zfill2(g3))
          [] pattern_name \in {"dmy_slash", "dmy_dash"} -> dashed(g3, zfill2(g2), zfill2(g1))
          [] pattern_name = "month_name" ->
                dashed(g3, month_map(SubSeq(lower(g2), 1, 3)), zfill2(g1))
          [] pattern_name = "name_month" ->
                dashed(g3, month_map(SubSeq(lower(g1), 1, 3)), zfill2(g2))
          [] pattern_name = "compact_date" -> dashed(g1, g2, g3)
          [] OTHER -> Group0(m, text)

\* the date a pattern of date_patterns finds in a text
date_by_pattern(pattern, text, match) ==
    IF match.found THEN Some(format_date(pattern.name, match, text)) ELSE None

\* the loop of _extract_date_from_text over date_patterns: the first
\* pattern that matches decides
first_date_in(patterns, text) ==
    FirstSome([p \in 1..Len(patterns) |->
        date_by_pattern(patterns[p], text, SearchPattern(patterns[p], text))])

\* FieldExtractor._extract_date_from_text.  Every pattern that matches fills
\* all of its groups, so the except branch is never taken.
extract_date_from_text(raw) == first_date_in(date_patterns, normalize_arabic_numbers(raw))

invoice_date_keywords ==
    << <<"i","n","v","o","i","c","e"," ","d","a","t","e">>,
       <<"i","s","s","u","e"," ","d","a","t","e">>,
       <<"d","a","t","e">>,
       <<"d","a","t","e","d">>,
       <<"U+062A","U+0627","U+0631","U+064A","U+062E"," ","U+0627","U+0644","U+0641","U+0627","U+062A","U+0648","U+0631","U+0629">>,
       <<"U+062A","U+0627","U+0631","U+064A","U+062E">> >>

due_date_keywords ==
    << <<"d","u","e"," ","d","a","t","e">>,
       <<"p","a","y","m","e","n","t"," ","d","a","t","e">>,
       <<"d","u","e">>,
       <<"U+062A","U+0627","U+0631","U+064A","U+062E"," ","U+0627","U+0644","U+0627","U+0633","U+062A","U+062D","U+0642","U+0627","U+0642">> >>

no_value == [value |-> None, confidence |-> 0]

\* the date of a keyword element: in the element itself, or in the first
\* element to its right that holds one
date_near(els, search_elements, e) ==
    LET first_in(nearby) ==
            FirstSome([n \in 1..Len(nearby) |->
                extract_date_from_text(els[nearby[n]].text)])
    IN  OrElse(extract_date_from_text(els[e].text),
               first_in(find_elements_near(els, search_elements, els[e].text,
                                           "right", dates_max_distance)))

\* what one iteration of the Strategy 1 loop of extract_dates assigns:
\* dates[field] = date_dict, for a keyword element that yields a date
date_by_keyword(els, search_elements, e) ==
    LET text_lower == lower(els[e].text)
        assigned(is_due_date, date_value) ==
            IF date_value # None
            THEN Some([field |-> IF is_due_date THEN "due_date" ELSE "invoice_date",
                       date_dict |-> [value |-> date_value,
                                      confidence |-> els[e].confidence,
                                      source |-> Some("keyword_proximity")]])
            ELSE None
        by_kind(is_invoice_date, is_due_date) ==
            IF is_invoice_date \/ is_due_date
            THEN assigned(is_due_date, date_near(els, search_elements, e))
            ELSE None
    IN  by_kind(AnyIn(invoice_date_keywords, text_lower),
                AnyIn(due_date_keywords, text_lower))

\* the assignments of a loop folded into the dates: every due date
\* overwrites due_date, an invoice date is kept only while invoice_date has
\* no value
fold_dates(dates, assigned) ==
    LET due == LastSome([k \in 1..Len(assigned) |->
                   IF assigned[k] # None /\ Val(assigned[k]).field = "due_date"
                   THEN assigned[k] ELSE None])
        inv == FirstSome([k \in 1..Len(assigned) |->
                   IF assigned[k] # None /\ Val(assigned[k]).field = "invoice_date"
                   THEN assigned[k] ELSE None])
    IN  [invoice_date |->
            IF dates.invoice_date.value = None /\ inv # None
            THEN Val(inv).date_dict ELSE dates.invoice_date,
         due_date |-> IF due # None THEN Val(due).date_dict ELSE dates.due_date,
         other_dates |-> dates.other_dates]

\* Strategy 1 of extract_dates: the loop over search_elements
dates_by_keyword(els, search_elements, dates) ==
    fold_dates(dates, Tuple([k \in 1..Len(search_elements) |->
        date_by_keyword(els, search_elements, search_elements[k])]))

\* Strategy 2 of extract_dates
dates_by_pattern(els, search_elements, dates) ==
    LET dated(element, date_value) ==
            IF date_value # None
            THEN Some([value |-> date_value,
                       confidence |-> element.confidence,
                       source |-> Some("pattern_match")])
            ELSE None
        assigned(found) ==
            IF found # None THEN [dates EXCEPT !.invoice_date = Val(found)] ELSE dates
    IN  IF dates.invoice_date.value = None
        THEN assigned(FirstSome([k \in 1..Len(search_elements) |->
                 dated(els[search_elements[k]],
                       extract_date_from_text(els[search_elements[k]].text))]))
        ELSE dates

T_date == <<"d","a","t","e">>
T_due == <<"d","u","e">>
T_tarikh == <<"U+062A","U+0627","U+0631","U+064A","U+062E">>
T_istihqaq == <<"U+0627","U+0633","U+062A","U+062D","U+0642","U+0627","U+0642">>

\* what one iteration of the Strategy 3 loop of extract_dates assigns
date_by_pair(els, pair) ==
    LET label == els[pair.label].text
        value == els[pair.value]
        label_lower == lower(label)
        assigned(date_value) ==
            IF date_value # None
            THEN Some([field |-> IF In(T_due, label_lower) \/ In(T_istihqaq, label)
                                 THEN "due_date" ELSE "invoice_date",
                       date_dict |-> [value |-> date_value,
                                      confidence |-> value.confidence,
                                      source |-> Some("key_value_pair")]])
            ELSE None
    IN  IF In(T_date, label_lower) \/ In(T_tarikh, label)
        THEN assigned(extract_date_from_text(value.text))
        ELSE None

\* Strategy 3 of extract_dates: the loop over the key-value pairs
dates_by_pair(els, pairs, dates) ==
    fold_dates(dates, Tuple([k \in 1..Len(pairs) |-> date_by_pair(els, pairs[k])]))

\* FieldExtractor.extract_dates
extract_dates(els, lay) ==
    LET dates == [invoice_date |-> no_value, due_date |-> no_value, other_dates |-> <<>>]
        search_elements == lay.zones["header"] \o lay.zones["vendor"]
        d1 == dates_by_keyword(els, search_elements, dates)
        d2 == dates_by_pattern(els, search_elements, d1)
    IN  dates_by_pair(els, lay.key_value_pairs, d2)

\* float arithmetic on amounts, exact on decimals of two places
DecSub(a, b) ==
    IF a.f >= b.f THEN Dec(a.w - b.w, a.f - b.f)
    ELSE Dec(a.w - b.w - 1, a.f + 100 - b.f)

DecPositive(d) == d.w > 0 \/ (d.w = 0 /\ d.f > 0)

\* the exclusive upper bound of an accepted amount
max_amount == 1000000000

\* _extract_amount_from_text without its range test
accepted_amount_any(amount) == Some(amount)

\* an amount that _extract_amount_from_text accepts
accepted_amount(amount) ==
    IF DecPositive(amount) /\ amount.w < max_amount THEN Some(amount) ELSE None

\* the amount a pattern of number_patterns finds in a text
amount_by_pattern(text, match) ==
    IF match.found THEN accepted_amount(clean_amount(group1_or_all(match, text)))
    ELSE None

\* the loop of _extract_amount_from_text over number_patterns: the first
\* pattern that yields an accepted amount decides
first_amount_in(patterns, text) ==
    FirstSome([p \in 1..Len(patterns) |->
        amount_by_pattern(text, SearchPattern(patterns[p], text))])

\* FieldExtractor._extract_amount_from_text
extract_amount_from_text(raw) ==
    first_amount_in(number_patterns, normalize_arabic_numbers(raw))

\* amount_types, with keywords_dict['en'] + keywords_dict['ar']
amount_types ==
    << [type |-> "total", keywords |-> total_keywords_en \o total_keywords_ar],
       [type |-> "subtotal", keywords |-> subtotal_keywords_en \o subtotal_keywords_ar],
       [type |-> "tax", keywords |-> tax_keywords_en \o tax_keywords_ar],
       [type |-> "discount", keywords |-> discount_keywords_en \o discount_keywords_ar] >>

\* any(kw in text_lower or kw in text for kw in keywords)
has_amount_keyword(keywords, text) == AnyIn(keywords, lower(text)) \/ AnyIn(keywords, text)

\* an amount found for a keyword element, as the field it is stored as
amount_field(amount, confidence, source) ==
    IF amount # None
    THEN Some([value |-> amount,
               confidence |-> confidence,
               source |-> Some(source),
               zone |-> Some("totals")])
    ELSE None

\* the first element near a keyword element that holds an amount
amount_near(els, element, nearby) ==
    FirstSome([n \in 1..Len(nearby) |->
        amount_field(extract_amount_from_text(els[nearby[n]].text),
                     (element.confidence + els[nearby[n]].confidence) \div 2,
                     "keyword_proximity")])

\* what one iteration of the Strategy 1 loop of extract_amounts assigns to
\* amounts[amount_type] for a totals element: the amount of the element
\* itself, or of the first element to its right that holds one
amount_of_element(els, totals_elements, keywords, e) ==
    IF ~ has_amount_keyword(keywords, els[e].text) THEN None
    ELSE OrElse(amount_field(extract_amount_from_text(els[e].text),
                             els[e].confidence, "keyword_same_element"),
                amount_near(els, els[e],
                    find_elements_near(els, totals_elements, els[e].text,
                                       "right", amounts_max_distance)))

\* Strategy 1 of extract_amounts for one amount type: the loop over the
\* totals zone, a later keyword element overwriting an earlier one
amount_by_keyword(els, totals_elements, keywords) ==
    ValOr(LastSome([k \in 1..Len(totals_elements) |->
              amount_of_element(els, totals_elements, keywords, totals_elements[k])]),
          no_value)

Min(a, b) == IF a <= b THEN a ELSE b

\* Strategy 2 of extract_amounts: subtotal = total - tax
calculated_subtotal(amounts) ==
    IF /\ amounts.total.value # None
       /\ amounts.tax.value # None
       /\ amounts.subtotal.value = None
       /\ DecPositive(DecSub(Val(amounts.total.value), Val(amounts.tax.value)))
    THEN [amounts EXCEPT !.subtotal =
             [value |-> Some(DecSub(Val(amounts.total.value), Val(amounts.tax.value))),
              confidence |-> Min(amounts.total.confidence, amounts.tax.confidence),
              source |-> Some("calculated"),
              zone |-> Some("totals")]]
    ELSE amounts

\* the amount of a pair whose label holds a keyword
amount_of_pair(els, keywords, pair) ==
    IF has_amount_keyword(keywords, els[pair.label].text)
    THEN amount_field(extract_amount_from_text(els[pair.value].text),
                      els[pair.value].confidence, "key_value_pair")
    ELSE None

\* Strategy 3 of extract_amounts for one amount type: the first pair with a
\* keyword label and an amount, when amounts[type] has no value yet
amount_by_pair(els, keywords, pairs, current) ==
    IF current.value = None
    THEN ValOr(FirstSome([k \in 1..Len(pairs) |-> amount_of_pair(els, keywords, pairs[k])]),
               current)
    ELSE current

\* keywords_dict['en'] + keywords_dict['ar'] of an amount type
keywords_of(type) ==
    amount_types[CHOOSE k \in 1..Len(amount_types) : amount_types[k].type = type].keywords

\* Strategy 1 of extract_amounts, for every amount type
amounts_by_keyword(els, totals_elements) ==
    [total |-> amount_by_keyword(els, totals_elements, keywords_of("total")),
     subtotal |-> amount_by_keyword(els, totals_elements, keywords_of("subtotal")),
     tax |-> amount_by_keyword(els, totals_elements, keywords_of("tax")),
     discount |-> amount_by_keyword(els, totals_elements, keywords_of("discount"))]

\* Strategy 3 of extract_amounts, for every amount type
amounts_by_pair(els, pairs, amounts) ==
    [total |-> amount_by_pair(els, keywords_of("total"), pairs, amounts.total),
     subtotal |-> amount_by_pair(els, keywords_of("subtotal"), pairs, amounts.subtotal),
     tax |-> amount_by_pair(els, keywords_of("tax"), pairs, amounts.tax),
     discount |-> amount_by_pair(els, keywords_of("discount"), pairs, amounts.discount)]

\* FieldExtractor.extract_amounts.  Strategies 1 and 3 write amounts[type]
\* from the elements and from amounts[type] alone, so each runs per type.
extract_amounts(els, lay) ==
    amounts_by_pair(els, lay.key_value_pairs,
        calculated_subtotal(amounts_by_keyword(els, lay.zones["totals"])))

\* tax_patterns[name]
tax_pattern(name) ==
    tax_patterns[CHOOSE k \in 1..Len(tax_patterns) : tax_patterns[k].name = name]

\* the elements of ocr_results a pattern is found in
elements_matching(els, pattern) ==
    SelectSeq(Tuple([i \in 1..Len(els) |-> i]),
              LAMBDA i : SearchPattern(pattern, els[i].text).found)

\* the last of the elements a pattern is found in, with the match's group 1
last_of_hits(els, pattern, hits) ==
    IF hits = <<>> THEN None
    ELSE Some([element |-> hits[Len(hits)],
               group1 |-> Val(GroupN(SearchPattern(pattern, els[hits[Len(hits)]].text),
                                     els[hits[Len(hits)]].text, 1))])

\* the last element of ocr_results a pattern of tax_patterns is found in
last_tax_match(els, name) ==
    last_of_hits(els, tax_pattern(name), elements_matching(els, tax_pattern(name)))

\* tax_info['tax_id'] after the loop
tax_id_field(els, id) ==
    IF id = None THEN no_value
    ELSE [value |-> Some(Val(id).group1),
          confidence |-> els[Val(id).element].confidence,
          source |-> Some("pattern_tax_id")]

\* tax_info['tax_percentage'] after the loop
tax_percentage_field(els, pct) ==
    IF pct = None THEN no_value
    ELSE [value |-> Some(float_value(normalize_arabic_numbers(Val(pct).group1))),
          confidence |-> els[Val(pct).element].confidence,
          source |-> Some("pattern_tax_percentage")]

\* FieldExtractor.extract_tax_info: every match overwrites the field
extract_tax_info(els, lay) ==
    [tax_id |-> tax_id_field(els, last_tax_match(els, "tax_id")),
     tax_percentage |-> tax_percentage_field(els, last_tax_match(els, "tax_percentage"))]

\* the phone number a pattern of phone_patterns finds in a text
phone_by_pattern(pattern, text, match) ==
    IF match.found THEN Some([value |-> Group0(match, text), name |-> pattern.name])
    ELSE None

\* the first pattern of phone_patterns found in a text
phone_in(text) ==
    FirstSome([p \in 1..Len(phone_patterns) |->
        phone_by_pattern(phone_patterns[p], text,
                         SearchPattern(phone_patterns[p], text))])

\* str.isdigit()
isdigit(text) ==
    text # <<>> /\ \A i \in 1..Len(text) : text[i] \in Digits \cup Range(ArabicDigits)

\* the company-name test of extract_vendor_info on a stripped text
is_name_like(text) ==
    /\ Len(text) > 3
    /\ ~ isdigit(remove_char(remove_char(text, "-"), "/"))
    /\ ~ \E p \in 1..Len(date_patterns) :
            Search(date_patterns[p].re, text, date_patterns[p].ic).found

no_list == [value |-> <<>>, confidence |-> 0]

\* vendor['name']: the first of the first five elements that looks like a name
vendor_name_field(els, names) ==
    IF names = <<>> THEN no_value
    ELSE [value |-> Some(strip(els[Head(names)].text)),
          confidence |-> els[Head(names)].confidence,
          source |-> Some("position_heuristic")]

\* vendor['phone'] for an element a phone pattern is found in
phone_field(element, phone) ==
    [value |-> Some(Val(phone).value),
     confidence |-> element.confidence,
     source |-> Some("pattern_" \o Val(phone).name)]

\* vendor['phone']: no break of the outer loop, the last element holding a
\* phone number decides
vendor_phone_field(els, phones) ==
    IF phones = <<>> THEN no_value
    ELSE phone_field(els[phones[Len(phones)]], phone_in(els[phones[Len(phones)]].text))

\* vendor['email']: the first element holding an address
vendor_email_field(els, emails) ==
    IF emails = <<>> THEN no_value
    ELSE [value |-> Some(Group0(Search(email_pattern, els[Head(emails)].text, FALSE),
                                els[Head(emails)].text)),
          confidence |-> els[Head(emails)].confidence,
          source |-> Some("pattern_email")]

\* extract_vendor_info over its search elements
vendor_in(els, search_elements) ==
    [name |-> vendor_name_field(els,
                  SelectSeq(SubSeq(search_elements, 1, Min(5, Len(search_elements))),
                            LAMBDA i : is_name_like(strip(els[i].text)))),
     address |-> no_list,
     phone |-> vendor_phone_field(els,
                   SelectSeq(search_elements, LAMBDA i : phone_in(els[i].text) # None)),
     email |-> vendor_email_field(els,
                   SelectSeq(search_elements,
                             LAMBDA i : Search(email_pattern, els[i].text, FALSE).found))]

\* FieldExtractor.extract_vendor_info
extract_vendor_info(els, lay) == vendor_in(els, lay.zones["header"] \o lay.zones["vendor"])

\* FieldExtractor.extract_customer_info
extract_customer_info(els, lay) ==
    LET vendor_elements == lay.zones["vendor"]
        labels == SelectSeq([k \in 1..Len(vendor_elements) |-> k],
                      LAMBDA k : AnyIn(customer_keywords_en \o customer_keywords_ar,
                                       lower(els[vendor_elements[k]].text)))
    IN  [name |->
            IF labels # <<>> /\ Head(labels) + 1 <= Len(vendor_elements)
            THEN [value |-> Some(els[vendor_elements[Head(labels) + 1]].text),
                  confidence |-> els[vendor_elements[Head(labels) + 1]].confidence,
                  source |-> Some("keyword_proximity")]
            ELSE no_value,
         address |-> no_list]

\* re.match(r'^\d+$', text)
is_integer_text(text) ==
    text # <<>> /\ \A i \in 1..Len(text) : text[i] \in ReDigit

\* one row of extract_line_items
line_item(els, row_elements) ==
    LET amount == extract_amount_from_text(els[row_elements[Len(row_elements)]].text)
        middle == SelectSeq(SubSeq(row_elements, 2, Len(row_elements) - 1),
                            LAMBDA i : is_integer_text(strip(els[i].text)))
    IN  [description |-> els[row_elements[1]].text,
         quantity |->
            IF Len(row_elements) >= 3 /\ middle # <<>>
            THEN Some(digits_value(normalize_arabic_numbers(strip(els[Head(middle)].text))))
            ELSE None,
         unit_price |-> None,
         amount |-> amount,
         confidence |-> els[row_elements[1]].confidence]

\* FieldExtractor.extract_line_items
extract_line_items(els, lay) ==
    IF lay.tables = <<>> THEN <<>>
    ELSE LET rows == SelectSeq(lay.tables[1].rows, LAMBDA row : Len(row.elements) >= 2)
         IN  [r \in 1..Len(rows) |-> line_item(els, rows[r].elements)]

\* ' '.join(texts)
RECURSIVE join_space(_)
join_space(texts) ==
    IF texts = <<>> THEN <<>>
    ELSE IF Len(texts) = 1 THEN Head(texts)
    ELSE Head(texts) \o <<" ">> \o join_space(Tail(texts))

currency_confidence == 800

\* FieldExtractor.extract_currency
extract_currency(els) ==
    [value |-> Some(find_currency(join_space([i \in 1..Len(els) |-> els[i].text]))),
     confidence |-> currency_confidence,
     source |-> Some("pattern_match")]

payment_keywords ==
    << <<"p","a","y","m","e","n","t">>,
       <<"t","e","r","m","s">>,
       <<"n","e","t">>,
       <<"d","u","e">>,
       <<"d","a","y","s">>,
       <<"U+0634","U+0631","U+0648","U+0637"," ","U+0627","U+0644","U+062F","U+0641","U+0639">> >>

\* FieldExtractor.extract_payment_terms
extract_payment_terms(els, lay) ==
    LET footer_elements == lay.zones["footer"]
        hits == SelectSeq(footer_elements,
                          LAMBDA i : AnyIn(payment_keywords, lower(els[i].text)))
    IN  IF hits = <<>> THEN no_value
        ELSE [value |-> Some(els[Head(hits)].text),
              confidence |-> els[Head(hits)].confidence,
              source |-> Some("keyword_match")]

\* the confidences _calculate_overall_confidence collects: of a field with a
\* 'confidence' key, else of its sub-fields; line_items is a list and is
\* skipped, as is other_dates
confidences(extracted) ==
    << extracted.invoice_number.confidence,
       extracted.dates.invoice_date.confidence,
       extracted.dates.due_date.confidence,
       extracted.amounts.total.confidence,
       extracted.amounts.subtotal.confidence,
       extracted.amounts.tax.confidence,
       extracted.amounts.discount.confidence,
       extracted.tax_info.tax_id.confidence,
       extracted.tax_info.tax_percentage.confidence,
       extracted.vendor_info.name.confidence,
       extracted.vendor_info.address.confidence,
       extracted.vendor_info.phone.confidence,
       extracted.vendor_info.email.confidence,
       extracted.customer_info.name.confidence,
       extracted.customer_info.address.confidence,
       extracted.currency.confidence,
       extracted.payment_terms.confidence >>

\* FieldExtractor._calculate_overall_confidence: sum / len, kept exact
calculate_overall_confidence(extracted) == mean(confidences(extracted))

total_fields == 9

\* sum(1 for v in extracted.values() if v and v != {}): the eight dicts are
\* never empty, the list line_items may be
fields_extracted(extracted) == 8 + (IF extracted.line_items # <<>> THEN 1 ELSE 0)

\* the metadata extract_all_fields adds to the extracted fields
with_metadata(extracted) ==
    [invoice_number |-> extracted.invoice_number,
     dates |-> extracted.dates,
     amounts |-> extracted.amounts,
     tax_info |-> extracted.tax_info,
     vendor_info |-> extracted.vendor_info,
     customer_info |-> extracted.customer_info,
     line_items |-> extracted.line_items,
     currency |-> extracted.currency,
     payment_terms |-> extracted.payment_terms,
     metadata |-> [extraction_confidence |-> calculate_overall_confidence(extracted),
                   fields_extracted |-> fields_extracted(extracted),
                   total_fields |-> total_fields]]

\* FieldExtractor.extract_all_fields with a given layout
extract_fields(els, lay) ==
    with_metadata(
        [invoice_number |-> extract_invoice_number(els, lay),
         dates |-> extract_dates(els, lay),
         amounts |-> extract_amounts(els, lay),
         tax_info |-> extract_tax_info(els, lay),
         vendor_info |-> extract_vendor_info(els, lay),
         customer_info |-> extract_customer_info(els, lay),
         line_items |-> extract_line_items(els, lay),
         currency |-> extract_currency(els),
         payment_terms |-> extract_payment_terms(els, lay)])

\* FieldExtractor.extract_all_fields(ocr_results): layout is None
extract_all_fields(els) == extract_fields(els, analyze(els))

----------------------------------------------------------------------------
(* InvoiceValidator *)

\* self.config, _default_config
min_year == 2000

max_year == 2030

max_future_days == 90

max_past_years == 10

\* amount_limits: min_total 0.01, max_total 10000000, max_tax_percentage 30.0
min_total == Dec(0, 1)

max_total == Dec(10000000, 0)

max_tax_percentage == 30

\* tax_tolerance 0.02 = 1/50, the line items tolerance 0.05 = 1/20
tax_tolerance_inverse == 50

line_items_tolerance_inverse == 20

\* confidence_thresholds
confidence_minimum == 500

confidence_warning == 700

confidence_good == 850

required_fields == <<"invoice_number", "dates.invoice_date", "amounts.total", "currency">>

valid_currencies ==
    { <<"U","S","D">>, <<"E","U","R">>, <<"G","B","P">>, <<"J","P","Y">>,
      <<"C","N","Y">>, <<"I","N","R">>, <<"C","A","D">>, <<"A","U","D">>,
      <<"S","A","R">>, <<"A","E","D">>, <<"Q","A","R">>, <<"K","W","D">>,
      <<"O","M","R">>, <<"B","H","D">>, <<"J","O","D">>, <<"E","G","P">>,
      <<"L","B","P">>, <<"S","Y","P">>, <<"I","Q","D">>, <<"T","R","Y">> }

\* ValidationResult.  A message is its template followed by the values
\* formatted into it.
ValidationResult(field, is_valid, severity, message, suggested_fix) ==
    [field |-> field, is_valid |-> is_valid, severity |-> severity,
     message |-> message, suggested_fix |-> suggested_fix]

\* comparison of amounts
DecLess(a, b) == a.w < b.w \/ (a.w = b.w /\ a.f < b.f)

\* `if x` on an optional amount: present and not 0.0
Truthy(amount) == amount # None /\ Val(amount) # Zero

\* the format regex datetime.strptime compiles for '%Y-%m-%d' (re.IGNORECASE)
re_strptime_ymd ==
    ReSeq(<<ReGrp(1, ReSeq(<<ReCls(ReDigit), ReCls(ReDigit),
        ReCls(ReDigit), ReCls(ReDigit)>>)), ReLit(<<"-">>), ReGrp(2,
        ReAlt(<<ReSeq(<<ReLit(<<"1">>), ReCls({"0","1","2"})>>),
        ReSeq(<<ReLit(<<"0">>),
        ReCls({"1","2","3","4","5","6","7","8","9"})>>),
        ReCls({"1","2","3","4","5","6","7","8","9"})>>)), ReLit(<<"-">>),
        ReGrp(3, ReAlt(<<ReSeq(<<ReLit(<<"3">>), ReCls({"0","1"})>>),
        ReSeq(<<ReCls({"1","2"}), ReCls(ReDigit)>>),
        ReSeq(<<ReLit(<<"0">>),
        ReCls({"1","2","3","4","5","6","7","8","9"})>>),
        ReCls({"1","2","3","4","5","6","7","8","9"}),
        ReSeq(<<ReLit(<<" ">>),
        ReCls({"1","2","3","4","5","6","7","8","9"})>>)>>))>>)

is_leap(year) == year % 4 = 0 /\ (year % 100 # 0 \/ year % 400 = 0)

days_in_month(year, month) ==
    IF month = 2 THEN (IF is_leap(year) THEN 29 ELSE 28)
    ELSE IF month \in {4, 6, 9, 11} THEN 30 ELSE 31

RECURSIVE days_before_month(_, _)
days_before_month(year, month) ==
    IF month = 1 THEN 0
    ELSE days_before_month(year, month - 1) + days_in_month(year, month - 1)

\* date.toordinal(): the day number, 1 for 0001-01-01
toordinal(date) ==
    LET y == date.year - 1
    IN  y * 365 + y \div 4 - y \div 100 + y \div 400
        + days_before_month(date.year, date.month) + date.day

\* datetime.strptime(date_str, '%Y-%m-%d'): the date, or None for ValueError.
\* The regex must match at the start and consume the string, and the fields
\* must name a day that exists.
strptime(date_str) ==
    LET m == MatchAt(re_strptime_ymd, date_str, 0, TRUE)
        year == digits_value(normalize_arabic_numbers(Val(GroupN(m, date_str, 1))))
        month == digits_value(normalize_arabic_numbers(Val(GroupN(m, date_str, 2))))
        day == digits_value(normalize_arabic_numbers(strip(Val(GroupN(m, date_str, 3)))))
    IN  IF m.found /\ m.end = Len(date_str) /\ year >= 1 /\ day <= days_in_month(year, month)
        THEN Some([year |-> year, month |-> month, day |-> day])
        ELSE None

\* `if value` on an optional text: present and not ''
Present(text) == text # None /\ Val(text) # <<>>

\* InvoiceValidator._get_nested_value of a required field
required_value(data, field_path) ==
    CASE field_path = "invoice_number" -> data.invoice_number.value
      [] field_path = "dates.invoice_date" -> data.dates.invoice_date.value
      [] field_path = "amounts.total" -> data.amounts.total.value
      [] field_path = "currency" -> data.currency.value

\* value is None or value == '' or value == {}
is_missing(value) == value = None \/ Val(value) = <<>>

\* InvoiceValidator._validate_required_fields
validate_required_fields(data, results) ==
    results \o
    [k \in 1..Len(required_fields) |->
        IF is_missing(required_value(data, required_fields[k]))
        THEN ValidationResult(required_fields[k], FALSE, "error",
                 <<"Required field is missing or empty", required_fields[k]>>,
                 Some("Check OCR quality and field extraction logic"))
        ELSE ValidationResult(required_fields[k], TRUE, "info",
                 <<"Required field is present", required_fields[k]>>, None)]

min_invoice_number_length == 3

\* InvoiceValidator._validate_invoice_number
validate_invoice_number(invoice_number, results) ==
    LET value == invoice_number.value
        confidence == invoice_number.confidence
        too_short ==
            IF Len(Val(value)) < min_invoice_number_length
            THEN <<ValidationResult("invoice_number", FALSE, "warning",
                       <<"Invoice number seems too short", Val(value)>>,
                       Some("Verify this is the complete invoice number"))>>
            ELSE <<>>
        confident ==
            IF confidence < confidence_warning
            THEN <<ValidationResult("invoice_number", TRUE, "warning",
                       <<"Low confidence for invoice number", confidence>>,
                       Some("Manual verification recommended"))>>
            ELSE <<ValidationResult("invoice_number", TRUE, "info",
                       <<"Invoice number validated", Val(value)>>, None)>>
    IN  IF ~ Present(value)
        THEN Append(results,
                 ValidationResult("invoice_number", FALSE, "error",
                     <<"Invoice number is missing">>, Some("Check header zone extraction")))
        ELSE results \o too_short \o confident

\* the checks of _validate_dates on a well-formed invoice date, before the
\* final `all(...)`.  datetime.now() is some time after midnight of the day
\* today (an ordinal), so a date, which is a midnight, is later than
\* now + 90 days when it is after today + 90, and earlier than
\* now - 3650 days when it is not after today - 3650.
invoice_date_range_results(inv_date_value, date_obj, today) ==
    (IF date_obj.year < min_year
     THEN <<ValidationResult("dates.invoice_date", FALSE, "warning",
                <<"Invoice date is very old", inv_date_value>>,
                Some("Verify the year was extracted correctly"))>>
     ELSE IF date_obj.year > max_year
     THEN <<ValidationResult("dates.invoice_date", FALSE, "error",
                <<"Invoice date is in far future", inv_date_value>>,
                Some("Check for date extraction errors"))>>
     ELSE <<>>)
    \o
    (IF toordinal(date_obj) > today + max_future_days
     THEN <<ValidationResult("dates.invoice_date", FALSE, "warning",
                <<"Invoice date is far in future", inv_date_value>>,
                Some("Verify this is correct"))>>
     ELSE <<>>)
    \o
    (IF toordinal(date_obj) <= today - max_past_years * 365
     THEN <<ValidationResult("dates.invoice_date", FALSE, "warning",
                <<"Invoice date is very old", inv_date_value>>,
                Some("Verify this is a current invoice"))>>
     ELSE <<>>)

\* the invoice date half of _validate_dates
validate_invoice_date(dates, results, today) ==
    LET inv_date_value == dates.invoice_date.value
        date_obj == strptime(Val(inv_date_value))
        checked == results \o invoice_date_range_results(Val(inv_date_value), Val(date_obj), today)
    IN  IF ~ Present(inv_date_value) THEN results
        ELSE IF date_obj = None
        THEN Append(results,
                 ValidationResult("dates.invoice_date", FALSE, "error",
                     <<"Invalid date format", Val(inv_date_value)>>,
                     Some("Check date extraction patterns")))
        \* all(r.is_valid for r in self.validation_results if r.field == ...)
        ELSE IF \A k \in 1..Len(checked) :
                    checked[k].field = "dates.invoice_date" => checked[k].is_valid
        THEN Append(checked,
                 ValidationResult("dates.invoice_date", TRUE, "info",
                     <<"Invoice date validated", Val(inv_date_value)>>, None))
        ELSE checked

\* the due date half of _validate_dates without the comparison with the
\* invoice date
validate_due_date_unordered(dates, results) ==
    IF ~ Present(dates.due_date.value) THEN results
    ELSE IF strptime(Val(dates.due_date.value)) = None
    THEN Append(results,
             ValidationResult("dates.due_date", FALSE, "warning",
                 <<"Invalid date format", Val(dates.due_date.value)>>,
                 Some("Check date extraction patterns")))
    ELSE IF ~ Present(dates.invoice_date.value) THEN results
    ELSE IF strptime(Val(dates.invoice_date.value)) = None THEN results
    ELSE Append(results,
             ValidationResult("dates.due_date", TRUE, "info",
                 <<"Due date validated", Val(dates.due_date.value)>>, None))

\* the due date half of _validate_dates
validate_due_date(dates, results) ==
    LET inv_date_value == dates.invoice_date.value
        due_date_value == dates.due_date.value
        inv_dt == strptime(Val(inv_date_value))
        due_dt == strptime(Val(due_date_value))
    IN  IF ~ Present(due_date_value) THEN results
        ELSE IF due_dt = None
        THEN Append(results,
                 ValidationResult("dates.due_date", FALSE, "warning",
                     <<"Invalid date format", Val(due_date_value)>>,
                     Some("Check date extraction patterns")))
        ELSE IF ~ Present(inv_date_value) THEN results
        \* except ValueError: pass
        ELSE IF inv_dt = None THEN results
        ELSE IF toordinal(Val(due_dt)) < toordinal(Val(inv_dt))
        THEN Append(results,
                 ValidationResult("dates.due_date", FALSE, "error",
                     <<"Due date is before invoice date", Val(due_date_value), Val(inv_date_value)>>,
                     Some("Check which date is which")))
        ELSE Append(results,
                 ValidationResult("dates.due_date", TRUE, "info",
                     <<"Due date validated", Val(due_date_value)>>, None))

\* InvoiceValidator._validate_dates
validate_dates(dates, results, today) ==
    validate_due_date(dates, validate_invoice_date(dates, results, today))

\* InvoiceValidator._validate_amounts
validate_amounts(amounts, results) ==
    LET total == amounts.total.value
        subtotal == amounts.subtotal.value
        tax == amounts.tax.value
        discount == amounts.discount.value
    IN  results
        \o
        (IF total = None THEN <<>>
         ELSE IF DecLess(Val(total), min_total)
         THEN <<ValidationResult("amounts.total", FALSE, "error",
                    <<"Total amount is too small", Val(total)>>, Some("Check amount extraction"))>>
         ELSE IF DecLess(max_total, Val(total))
         THEN <<ValidationResult("amounts.total", FALSE, "warning",
                    <<"Total amount is very large", Val(total)>>, Some("Verify this amount is correct"))>>
         ELSE <<ValidationResult("amounts.total", TRUE, "info",
                    <<"Total amount validated", Val(total)>>, None)>>)
        \o
        (IF subtotal # None /\ total # None /\ DecLess(Val(total), Val(subtotal))
         THEN <<ValidationResult("amounts.subtotal", FALSE, "error",
                    <<"Subtotal is greater than total", Val(subtotal), Val(total)>>,
                    Some("Check if amounts were extracted correctly"))>>
         ELSE <<>>)
        \o
        (IF tax # None /\ DecLess(Val(tax), Zero)
         THEN <<ValidationResult("amounts.tax", FALSE, "error",
                    <<"Tax amount is negative", Val(tax)>>, Some("Check tax extraction"))>>
         ELSE <<>>)
        \o
        \* (tax / subtotal) * 100 > max_tax_percentage, for subtotal > 0
        (IF /\ tax # None
            /\ Truthy(subtotal) /\ DecLess(Zero, Val(subtotal))
            /\ Cents(Val(tax)) * 100 > max_tax_percentage * Cents(Val(subtotal))
         THEN <<ValidationResult("amounts.tax", FALSE, "warning",
                    <<"Tax rate seems too high", Val(tax), Val(subtotal)>>,
                    Some("Verify tax amount is correct"))>>
         ELSE <<>>)
        \o
        (IF discount # None /\ DecLess(Val(discount), Zero)
         THEN <<ValidationResult("amounts.discount", FALSE, "warning",
                    <<"Discount amount is negative", Val(discount)>>,
                    Some("Check if this is meant to be positive"))>>
         ELSE <<>>)

\* difference >= base * tolerance
exceeds_tolerance_inclusive(difference, base, inverse) ==
    difference >= base \div inverse

\* difference > base * tolerance for a tolerance 1/inverse, on integers:
\* difference > base / inverse exactly when difference > floor(base / inverse)
exceeds_tolerance(difference, base, inverse) == difference > base \div inverse

\* InvoiceValidator._validate_tax.  Amounts are in hundredths, the tax
\* percentage in hundredths of a percent, so expected_tax in hundredths is
\* subtotal * percentage / 10000; both sides of the second comparison are
\* scaled by 10000.
validate_tax(amounts, tax_info, results) ==
    LET total == amounts.total.value
        subtotal == amounts.subtotal.value
        tax == amounts.tax.value
        tax_percentage == tax_info.tax_percentage.value
        calculated_total == Cents(Val(subtotal)) + Cents(Val(tax))
        difference == Abs(Cents(Val(total)) - calculated_total)
        expected_tax == Cents(Val(subtotal)) * Cents(Val(tax_percentage))
        tax_diff == Abs(Cents(Val(tax)) * 10000 - expected_tax)
    IN  results
        \o
        (IF total # None /\ subtotal # None /\ tax # None
         THEN IF exceeds_tolerance(difference, Cents(Val(total)), tax_tolerance_inverse)
              THEN <<ValidationResult("amounts", FALSE, "warning",
                         <<"Amounts don't add up", Val(subtotal), Val(tax), Val(total)>>,
                         Some("Expected total"))>>
              ELSE <<ValidationResult("amounts", TRUE, "info",
                         <<"Amount calculations are consistent">>, None)>>
         ELSE <<>>)
        \o
        (IF /\ Truthy(tax_percentage) /\ Truthy(subtotal) /\ Truthy(tax)
            /\ exceeds_tolerance(tax_diff, expected_tax, tax_tolerance_inverse)
         THEN <<ValidationResult("tax_info.tax_percentage", FALSE, "warning",
                    <<"Tax percentage doesn't match tax amount", Val(tax_percentage)>>,
                    Some("Expected tax"))>>
         ELSE <<>>)

\* _validate_currency accepting every present code
is_valid_currency_any(value) == TRUE

\* value in valid_currencies
is_valid_currency(value) == value \in valid_currencies

\* InvoiceValidator._validate_currency
validate_currency(currency, results) ==
    LET value == currency.value
    IN  IF ~ Present(value)
        THEN Append(results,
                 ValidationResult("currency", FALSE, "warning",
                     <<"Currency code is missing">>, Some("Defaulting to USD")))
        ELSE IF ~ is_valid_currency(Val(value))
        THEN Append(results,
                 ValidationResult("currency", FALSE, "warning",
                     <<"Unusual currency code", Val(value)>>, Some("Verify currency is correct")))
        ELSE Append(results,
                 ValidationResult("currency", TRUE, "info",
                     <<"Currency validated", Val(value)>>, None))

\* ^[a-zA-Z0-9._%+-]+@[a-zA-Z0-9.-]+\.[A-Z|a-z]{2,}$
re_valid_email ==
    ReSeq(<<ReBOL,
        RePlus(ReCls(Range(LowerCase) \cup Range(UpperCase) \cup Digits \cup {".","_","%","+","-"})),
        ReLit(<<"@">>),
        RePlus(ReCls(Range(LowerCase) \cup Range(UpperCase) \cup Digits \cup {".","-"})),
        ReLit(<<".">>),
        ReRep(ReCls(Range(UpperCase) \cup Range(LowerCase) \cup {"|"}), 2,
        Inf), ReEOL>>)

min_phone_digits == 7

\* InvoiceValidator._validate_parties
validate_parties(vendor, customer, results) ==
    LET vendor_name == vendor.name.value
        vendor_email == vendor.email.value
        vendor_phone == vendor.phone.value
        \* re.sub(r'\D', '', vendor_phone)
        digits == SelectSeq(Val(vendor_phone), LAMBDA ch : ch \in ReDigit)
    IN  results
        \o
        (IF ~ Present(vendor_name)
         THEN <<ValidationResult("vendor_info.name", FALSE, "warning",
                    <<"Vendor name is missing">>, Some("Check header/vendor zone extraction"))>>
         ELSE <<>>)
        \o
        (IF Present(vendor_email) /\ ~ MatchAt(re_valid_email, Val(vendor_email), 0, FALSE).found
         THEN <<ValidationResult("vendor_info.email", FALSE, "warning",
                    <<"Email format looks invalid", Val(vendor_email)>>,
                    Some("Verify email extraction"))>>
         ELSE <<>>)
        \o
        (IF Present(vendor_phone) /\ Len(digits) < min_phone_digits
         THEN <<ValidationResult("vendor_info.phone", FALSE, "warning",
                    <<"Phone number seems incomplete", Val(vendor_phone)>>,
                    Some("Verify phone extraction"))>>
         ELSE <<>>)

\* sum(item.get('amount', 0) or 0 for item in line_items if item.get('amount')),
\* in hundredths
total_from_items(line_items) ==
    SumSeq([k \in 1..Len(line_items) |->
        IF Truthy(line_items[k].amount) THEN Cents(Val(line_items[k].amount)) ELSE 0])

\* InvoiceValidator._validate_line_items
validate_line_items(line_items, amounts, results) ==
    LET subtotal == amounts.subtotal.value
        total == amounts.total.value
        items == total_from_items(line_items)
        found == ValidationResult("line_items", TRUE, "info",
                     <<"Found line items", Len(line_items)>>, None)
    IN  IF line_items = <<>>
        THEN Append(results,
                 ValidationResult("line_items", FALSE, "warning",
                     <<"No line items found">>, Some("Check if invoice has a table structure")))
        ELSE IF items > 0 /\ Truthy(subtotal)
        THEN IF exceeds_tolerance(Abs(items - Cents(Val(subtotal))), Cents(Val(subtotal)),
                                  line_items_tolerance_inverse)
             THEN results \o
                  <<ValidationResult("line_items", FALSE, "warning",
                        <<"Line items total doesn't match subtotal", FromCents(items), Val(subtotal)>>,
                        Some("Check line item extraction or calculations")),
                    found>>
             ELSE Append(results, found)
        ELSE IF items > 0 /\ Truthy(total)
        THEN IF exceeds_tolerance(Abs(items - Cents(Val(total))), Cents(Val(total)),
                                  line_items_tolerance_inverse)
             THEN results \o
                  <<ValidationResult("line_items", FALSE, "info",
                        <<"Line items total differs from invoice total", FromCents(items), Val(total)>>,
                        Some("This is normal if tax/discounts are applied")),
                    found>>
             ELSE Append(results, found)
        ELSE Append(results, found)

\* overall_confidence < threshold, the mean being sum / n
ConfidenceBelow(c, threshold) == c.sum < threshold * c.n

\* InvoiceValidator._validate_confidence_scores
validate_confidence_scores(data, results) ==
    LET overall_confidence == data.metadata.extraction_confidence
    IN  Append(results,
            IF ConfidenceBelow(overall_confidence, confidence_minimum)
            THEN ValidationResult("metadata.confidence", FALSE, "error",
                     <<"Very low extraction confidence", overall_confidence>>,
                     Some("Image quality is poor, manual review required"))
            ELSE IF ConfidenceBelow(overall_confidence, confidence_warning)
            THEN ValidationResult("metadata.confidence", TRUE, "warning",
                     <<"Low extraction confidence", overall_confidence>>,
                     Some("Manual verification recommended"))
            ELSE IF ConfidenceBelow(overall_confidence, confidence_good)
            THEN ValidationResult("metadata.confidence", TRUE, "info",
                     <<"Moderate extraction confidence", overall_confidence>>, None)
            ELSE ValidationResult("metadata.confidence", TRUE, "info",
                     <<"Good extraction confidence", overall_confidence>>, None))

\* InvoiceValidator._validate_consistency
validate_consistency(data, results) ==
    LET vendor_name == data.vendor_info.name.value
        customer_name == data.customer_info.name.value
    IN  IF Present(vendor_name) /\ Present(customer_name) /\ vendor_name = customer_name
        THEN Append(results,
                 ValidationResult("consistency", FALSE, "warning",
                     <<"Vendor and customer names are identical">>,
                     Some("Check if parties were extracted correctly")))
        ELSE results

\* InvoiceValidator._get_recommended_actions
get_recommended_actions(errors, warnings) ==
    (IF errors # <<>>
     THEN << <<"Critical errors found - manual review required">>,
             <<"Fix error(s) before processing", Len(errors)>> >>
     ELSE <<>>)
    \o
    (IF warnings # <<>> THEN << <<"warning(s) found - verify accuracy", Len(warnings)>> >> ELSE <<>>)
    \o
    (IF errors = <<>> /\ warnings = <<>>
     THEN << <<"All validation checks passed">>, <<"Invoice data appears to be accurate">> >>
     ELSE <<>>)

max_warnings_without_review == 2

\* the status with the warnings looked at before the errors
overall_status_warnings_first(errors, warnings) ==
    IF warnings # <<>> THEN "WARNING"
    ELSE IF errors # <<>> THEN "FAILED"
    ELSE "PASSED"

\* overall_status of _generate_report
overall_status(errors, warnings) ==
    IF errors # <<>> THEN "FAILED"
    ELSE IF warnings # <<>> THEN "WARNING"
    ELSE "PASSED"

\* InvoiceValidator._generate_report over self.validation_results.  The
\* quality score passed / total * 100 is kept as the fraction it is.
generate_report(results) ==
    LET errors == SelectSeq(results, LAMBDA r : r.severity = "error" /\ ~ r.is_valid)
        warnings == SelectSeq(results, LAMBDA r : r.severity = "warning" /\ ~ r.is_valid)
        infos == SelectSeq(results, LAMBDA r : r.severity = "info")
        total_checks == Len(results)
        passed_checks == Len(SelectSeq(results, LAMBDA r : r.is_valid))
    IN  [overall_status |-> overall_status(errors, warnings),
         quality_score |->
            IF total_checks > 0 THEN [num |-> passed_checks * 100, den |-> total_checks]
            ELSE [num |-> 0, den |-> 1],
         summary |-> [total_checks |-> total_checks,
                      passed |-> passed_checks,
                      failed |-> total_checks - passed_checks,
                      errors |-> Len(errors),
                      warnings |-> Len(warnings),
                      info |-> Len(infos)],
         errors |-> errors,
         warnings |-> warnings,
         info |-> infos,
         all_results |-> results,
         requires_manual_review |->
            Len(errors) > 0 \/ Len(warnings) > max_warnings_without_review,
         recommended_actions |-> get_recommended_actions(errors, warnings)]

\* the number of check groups of validate_all
check_groups == 10

\* the k-th check group of validate_all appending to self.validation_results
check_group(k, data, results, today) ==
    CASE k = 1 -> validate_required_fields(data, results)
      [] k = 2 -> validate_invoice_number(data.invoice_number, results)
      [] k = 3 -> validate_dates(data.dates, results, today)
      [] k = 4 -> validate_amounts(data.amounts, results)
      [] k = 5 -> validate_tax(data.amounts, data.tax_info, results)
      [] k = 6 -> validate_currency(data.currency, results)
      [] k = 7 -> validate_parties(data.vendor_info, data.customer_info, results)
      [] k = 8 -> validate_line_items(data.line_items, data.amounts, results)
      [] k = 9 -> validate_confidence_scores(data, results)
      [] k = 10 -> validate_consistency(data, results)

\* the check groups from the k-th on, run without interruption
RECURSIVE run_checks(_, _, _, _)
run_checks(k, data, results, today) ==
    IF k > check_groups THEN results
    ELSE run_checks(k + 1, data, check_group(k, data, results, today), today)

\* validate_all without its first statement: the list keeps what it held
validation_results_kept(held) == held

\* self.validation_results = [] at the start of validate_all
validation_results_reset(held) == <<>>

\* InvoiceValidator.validate_all run without interruption on a validator
\* whose list holds held: the list when it returns
validation_results_after(data, held, today) ==
    run_checks(1, data, validation_results_reset(held), today)

\* InvoiceValidator.validate_all on a validator just constructed, whose
\* list is empty: the report returned
validate_all(data, today) ==
    generate_report(validation_results_after(data, <<>>, today))

----------------------------------------------------------------------------
(* The layout specification: analyze applied to every bounded element list *)

MaxElems == 3

T_Total == <<"T","o","t","a","l",":">>
T_Amount == <<"1",",","2","5","0",".","0","0">>

\* y-centres: the four shared zone boundaries, and 350 / 365 / 380, a chain
\* whose consecutive gaps are below the threshold and whose ends are not.
\* No two differ by exactly the threshold, where the float subtraction
\* decides the comparison.
PoolY == {200, 350, 365, 380, 750, 950}

\* a label at the left; values to its right at two distances within 0.3 of
\* it, and one beyond
LayoutPool ==
    {[text |-> T_Total, x |-> 100, y |-> y, confidence |-> 970] : y \in PoolY}
    \cup
    {[text |-> T_Amount, x |-> x, y |-> y, confidence |-> 990] :
        x \in {250, 350}, y \in PoolY}
    \cup
    {[text |-> T_Amount, x |-> 450, y |-> 350, confidence |-> 990]}

LayoutInputs == UNION {[1..n -> LayoutPool] : n \in 0..MaxElems}

NoLayout == [pending |-> TRUE]

\* extract_all_fields has not returned
NoFields == [pending |-> TRUE]

\* no text function is called, none has returned
NoArgument == [pending |-> TRUE]

NoResult == [pending |-> TRUE]

\* the call has returned the value v
Return(v) == [value |-> v]

\* the default of InvoicePipeline.__init__'s max_retries
default_max_retries == 2

\* self.stats as InvoicePipeline.__init__ leaves it
NoStats ==
    [total_processed |-> 0, successful |-> 0, validation_warnings |-> 0,
     validation_failed |-> 0, errors |-> 0]

\* a pipeline constructed with the defaults, and no process_invoice call made
Constructed ==
    /\ max_retries = default_max_retries
    /\ stats = NoStats
    /\ frames = <<>>

\* the day of the example run: 2024-01-15
ExampleDay == toordinal([year |-> 2024, month |-> 1, day |-> 15])

LayoutInit ==
    /\ ocr_results \in LayoutInputs
    /\ layout = NoLayout
    /\ fields = NoFields
    /\ now = ExampleDay
    /\ validation_results = <<>>
    /\ calls = <<>>
    /\ argument = NoArgument
    /\ result = NoResult
    /\ Constructed

\* LayoutAnalyzer.analyze(ocr_results), as InvoicePipeline._analyze_layout
\* calls it before the extraction
Analyze ==
    /\ layout = NoLayout
    /\ fields = NoFields
    /\ layout' = analyze(ocr_results)
    /\ UNCHANGED <<ocr_results, fields, now, validation_results, calls, argument, result, max_retries, stats, frames>>

LayoutNext == Analyze

SpecLayout == LayoutInit /\ [][LayoutNext]_vars

Analyzed == layout # NoLayout

----------------------------------------------------------------------------
(* Claims about the layout analyzer, checked under SpecLayout *)

ElemIds == 1..Len(ocr_results)

ZonesOf(i) == {z \in ZoneKeys : i \in Range(layout.zones[z])}

Occurrences(seq, i) == Cardinality({k \in 1..Len(seq) : seq[k] = i})

\* C5: zone assignment partitions the input: every element is in exactly one
\* of header, vendor, items, totals, footer, unknown, exactly once, and the
\* zone sizes sum to the number of elements.
C5_ZonePartition ==
    Analyzed =>
        /\ \A i \in ElemIds :
              /\ Cardinality(ZonesOf(i)) = 1
              /\ \A z \in ZonesOf(i) : Occurrences(layout.zones[z], i) = 1
        /\ SumSeq([k \in 1..Len(ZoneOrder) |-> Len(layout.zones[ZoneOrder[k]])])
              + Len(layout.zones["unknown"]) = Len(ocr_results)

C5_Witness ==
    /\ Analyzed
    /\ Len(ocr_results) = 3
    /\ \E i \in ElemIds : ocr_results[i].y = 200
    /\ \E i \in ElemIds : ocr_results[i].y = 750

\* The shared boundaries: the band that ends at the value and the band that
\* starts at it.
SharedBoundaries ==
    { [y |-> 200, ends |-> "header", starts |-> "vendor"],
      [y |-> 350, ends |-> "vendor", starts |-> "items"],
      [y |-> 750, ends |-> "items",  starts |-> "totals"],
      [y |-> 950, ends |-> "totals", starts |-> "footer"] }

\* C6 as stated: bands are half-open [y_start, y_end), so an element whose
\* y-centre equals a shared boundary is assigned to the band that starts there.
C6_HalfOpenBands ==
    Analyzed =>
        \A i \in ElemIds : \A b \in SharedBoundaries :
            ocr_results[i].y = b.y => i \in Range(layout.zones[b.starts])

\* C6 amended: bands are closed [y_start, y_end] and tried in the order header,
\* vendor, items, totals, footer, so an element whose y-centre equals a shared
\* boundary is assigned to the band that ends there.
C6_ClosedBandsFirstMatch ==
    Analyzed =>
        \A i \in ElemIds : \A b \in SharedBoundaries :
            ocr_results[i].y = b.y =>
                /\ i \in Range(layout.zones[b.ends])
                /\ i \notin Range(layout.zones[b.starts])

C6_Witness ==
    /\ Analyzed
    /\ \E i \in ElemIds :
          ocr_results[i].y = 950 /\ i \in Range(layout.zones["totals"])
    /\ \E i \in ElemIds :
          ocr_results[i].y = 200 /\ i \in Range(layout.zones["header"])

LineIds == 1..Len(layout.lines)

SameLine(i, j) ==
    \E l \in LineIds : i \in Range(layout.lines[l]) /\ j \in Range(layout.lines[l])

\* the y-centres of the input that lie between two y-centres
YsBetween(lo, hi) ==
    {ocr_results[k].y : k \in {k \in ElemIds : lo <= ocr_results[k].y /\ ocr_results[k].y <= hi}}

\* in a set of y-centres, every one but the largest has a successor nearer
\* than the threshold
Chained(ys, hi) ==
    \A v \in ys \ {hi} :
        \E w \in ys : v < w /\ w - v < horizontal_alignment_threshold

\* C7: elements with the same y-centre are in the same line, and two elements
\* more than the threshold apart are in the same line only if the elements
\* between them in y-order form a chain of gaps below the threshold.
C7_LineGrouping ==
    Analyzed =>
        \A i, j \in ElemIds :
            /\ ocr_results[i].y = ocr_results[j].y => SameLine(i, j)
            /\ ( /\ SameLine(i, j)
                 /\ ocr_results[j].y - ocr_results[i].y > horizontal_alignment_threshold )
               => Chained(YsBetween(ocr_results[i].y, ocr_results[j].y), ocr_results[j].y)

C7_Witness ==
    /\ Analyzed
    /\ \E i, j \in ElemIds :
          /\ ocr_results[i].y = 350 /\ ocr_results[j].y = 380
          /\ SameLine(i, j)

\* C8 as stated: any two elements of one line are at most the threshold apart.
C8_LineWithinThreshold ==
    Analyzed =>
        \A i, j \in ElemIds :
            SameLine(i, j) =>
                Abs(ocr_results[i].y - ocr_results[j].y) <= horizontal_alignment_threshold

\* C8 amended: a line is a chain: every element of a line but its topmost ones
\* has an element of the same line above it and nearer than the threshold.
C8_LineIsChain ==
    Analyzed =>
        \A l \in LineIds : \A i \in Range(layout.lines[l]) :
            \/ \A j \in Range(layout.lines[l]) : ocr_results[i].y <= ocr_results[j].y
            \/ \E j \in Range(layout.lines[l]) :
                  /\ ocr_results[j].y < ocr_results[i].y
                  /\ ocr_results[i].y - ocr_results[j].y < horizontal_alignment_threshold

C8_Witness ==
    /\ Analyzed
    /\ \E l \in LineIds :
          /\ Len(layout.lines[l]) = 3
          /\ \E i, j \in Range(layout.lines[l]) :
                ocr_results[j].y - ocr_results[i].y > horizontal_alignment_threshold

\* the elements that are to the right of label i, on its line and close to it
RightSameLineClose(i) ==
    {j \in ElemIds \ {i} :
        /\ ocr_results[j].x > ocr_results[i].x
        /\ ocr_results[j].x - ocr_results[i].x < kv_max_distance
        /\ Abs(ocr_results[j].y - ocr_results[i].y) < horizontal_alignment_threshold}

\* C9: every emitted key-value pair has its value right of the label, less
\* than 0.3 away horizontally and less than 0.02 away vertically, and no other
\* element meeting the three conditions is horizontally nearer to the label.
C9_KeyValuePairs ==
    Analyzed =>
        \A k \in 1..Len(layout.key_value_pairs) :
            LET p == layout.key_value_pairs[k]
            IN  /\ p.value \in RightSameLineClose(p.label)
                /\ p.distance = ocr_results[p.value].x - ocr_results[p.label].x
                /\ \A j \in RightSameLineClose(p.label) :
                      ocr_results[j].x >= ocr_results[p.value].x

C9_Witness ==
    /\ Analyzed
    /\ \E k \in 1..Len(layout.key_value_pairs) :
          LET p == layout.key_value_pairs[k]
          IN  \E j \in RightSameLineClose(p.label) :
                  ocr_results[j].x > ocr_results[p.value].x

\* the number of lines a set of y-centres falls into: the y-centres with no
\* other y-centre above them nearer than the threshold
LineCount(ys) ==
    Cardinality({v \in ys :
        ~ \E w \in ys : w < v /\ v - w < horizontal_alignment_threshold})

ItemsYs == {ocr_results[i].y : i \in Range(layout.zones["items"])}

\* C10: analyze emits at most one table, and one exactly when the items-zone
\* elements fall into at least 2 lines; the table has one row per such line.
C10_TableDetection ==
    Analyzed =>
        /\ Len(layout.tables) <= 1
        /\ Len(layout.tables) = 1 <=> LineCount(ItemsYs) >= 2
        /\ \A t \in 1..Len(layout.tables) :
              /\ layout.tables[t].num_rows = LineCount(ItemsYs)
              /\ Len(layout.tables[t].rows) = LineCount(ItemsYs)
              /\ \A i \in Range(layout.zones["items"]) :
                    Cardinality({r \in 1..Len(layout.tables[t].rows) :
                        i \in Range(layout.tables[t].rows[r].elements)}) = 1

C10_Witness ==
    /\ Analyzed
    /\ Len(layout.tables) = 1
    /\ layout.tables[1].num_rows = 2
    /\ Len(layout.zones["items"]) = 3

C10_WitnessSingleLine ==
    /\ Analyzed
    /\ Len(layout.zones["items"]) = 2
    /\ Len(layout.tables) = 0

----------------------------------------------------------------------------
(* The pipeline specification: one document through analyze,               *)
(* extract_all_fields and validate_all, as InvoicePipeline and the example *)
(* runs chain them                                                         *)

T_InvoiceNumberLine ==
    <<"I","n","v","o","i","c","e"," ","N","u","m","b","e","r",":"," ","I",
      "N","V","-","2","0","2","4","-","0","0","1">>
T_DateLine ==
    <<"D","a","t","e",":"," ","2","0","2","4","-","0","1","-","1","5">>
T_DollarAmount == <<"$","1",",","2","5","0",".","0","0">>
T_InvoiceNumber == <<"I","N","V","-","2","0","2","4","-","0","0","1">>
T_DueDateLine ==
    <<"D","u","e"," ","D","a","t","e",":"," ","2","0","2","3","-","1","2",
      "-","0","1">>
T_2024 == <<"2","0","2","4">>
T_InvoiceDate == <<"2","0","2","4","-","0","1","-","1","5">>

\* the mock OCR results of the example run of field_extractor.py: the end
\* to end scenario
EndToEnd ==
    << [text |-> T_InvoiceNumberLine, x |-> 100, y |-> 20, confidence |-> 950],
       [text |-> T_DateLine, x |-> 80, y |-> 60, confidence |-> 960],
       [text |-> T_Total, x |-> 50, y |-> 810, confidence |-> 970],
       [text |-> T_DollarAmount, x |-> 200, y |-> 810, confidence |-> 990] >>

\* the scenario's elements, then the invoice number as an element of its
\* own to the right of the header label and a due date before the invoice
\* date
Catalogue ==
    EndToEnd \o
    << [text |-> T_InvoiceNumber, x |-> 350, y |-> 20, confidence |-> 980],
       [text |-> T_DueDateLine, x |-> 80, y |-> 100, confidence |-> 940] >>

\* the elements of seq at the positions in S, in the order of seq
Pick(seq, S) ==
    LET F[i \in 0..Len(seq)] ==
            IF i = 0 THEN <<>>
            ELSE IF i \in S THEN Append(F[i - 1], seq[i]) ELSE F[i - 1]
    IN  F[Len(seq)]

\* the documents: what an OCR run finds of the catalogue
ExtractInputs == {Pick(Catalogue, S) : S \in SUBSET (1..Len(Catalogue))}

\* the days the pipeline runs on: the day of the example, and a day more
\* than ten years later
Todays == {ExampleDay, toordinal([year |-> 2034, month |-> 6, day |-> 1])}

\* validate_all's position: the call is made, the next check group is k,
\* the report is to be generated, the call has returned
Called == 0
Reporting == check_groups + 1
Returned == check_groups + 2

NoReport == [pending |-> TRUE]

ExtractInit ==
    /\ ocr_results \in ExtractInputs
    /\ layout = NoLayout
    /\ fields = NoFields
    /\ now \in Todays
    /\ validation_results = <<>>
    /\ calls = <<>>
    /\ argument = NoArgument
    /\ result = NoResult
    /\ Constructed

\* FieldExtractor.extract_all_fields(ocr_results, layout): with the layout
\* the pipeline computed, or when none is passed with the layout it
\* computes itself
ExtractAllFields ==
    /\ fields = NoFields
    /\ fields' = extract_fields(ocr_results,
                     IF layout = NoLayout THEN analyze(ocr_results) ELSE layout)
    /\ UNCHANGED <<ocr_results, layout, now, validation_results, calls, argument, result, max_retries, stats, frames>>

\* InvoiceValidator.validate_all(extracted_data), run without interruption
ValidateAll(extracted_data) ==
    /\ validation_results' =
           validation_results_after(extracted_data, validation_results, now)
    /\ calls' = Append(calls,
           [extracted_data |-> extracted_data,
            pc |-> Returned,
            report |-> generate_report(validation_results')])
    /\ UNCHANGED <<ocr_results, layout, fields, now, argument, result, max_retries, stats, frames>>

\* the pipeline validates what it extracted, once
ValidateFields ==
    /\ fields # NoFields
    /\ calls = <<>>
    /\ ValidateAll(fields)

ExtractNext == Analyze \/ ExtractAllFields \/ ValidateFields

SpecExtract == ExtractInit /\ [][ExtractNext]_vars

----------------------------------------------------------------------------
(* Claims about the end-to-end scenario, checked under SpecExtract *)

\* C1: for the end-to-end scenario extract_all_fields returns
\* invoice_number.value = 'INV-2024-001', dates.invoice_date.value =
\* '2024-01-15', amounts.total.value = 1250.00 and currency.value = 'USD'.
C1_EndToEndFields ==
    (ocr_results = EndToEnd /\ fields # NoFields) =>
        /\ fields.invoice_number.value = Some(T_InvoiceNumber)
        /\ fields.dates.invoice_date.value = Some(T_InvoiceDate)
        /\ fields.amounts.total.value = Some(Dec(1250, 0))
        /\ fields.currency.value = Some(USD)

\* what extract_all_fields returns for the scenario: no element lies to the
\* right of the header label, so Strategy 2 applies the pattern 'standard',
\* whose group is the first run of digits
C1_Observed ==
    /\ ocr_results = EndToEnd
    /\ fields # NoFields
    /\ fields.invoice_number.value = Some(T_2024)
    /\ fields.invoice_number.source = Some("pattern_standard")
    /\ fields.dates.invoice_date.value = Some(T_InvoiceDate)
    /\ fields.amounts.total.value = Some(Dec(1250, 0))
    /\ fields.currency.value = Some(USD)

\* C2: for the end-to-end scenario validate_all applied to the output of
\* extract_all_fields produces no error-severity failure: overall_status is
\* not FAILED.
C2_NoErrorFailure ==
    (ocr_results = EndToEnd /\ calls # <<>>) =>
        /\ calls[1].report.overall_status # "FAILED"
        /\ calls[1].report.errors = <<>>

\* what validate_all returns for the scenario: the seventeen confidences
\* average below the minimum, which is an error
C2_Observed ==
    /\ ocr_results = EndToEnd
    /\ calls # <<>>
    /\ calls[1].extracted_data = fields
    /\ fields.metadata.extraction_confidence = [sum |-> 4640, n |-> 17]
    /\ calls[1].report.overall_status = "FAILED"
    /\ Len(calls[1].report.errors) = 1
    /\ calls[1].report.errors[1].field = "metadata.confidence"
    /\ calls[1].report.errors[1].severity = "error"

----------------------------------------------------------------------------
(* The validator specifications: validate_all calls on the one             *)
(* InvoiceValidator of a pipeline, one after the other and two at a time   *)

\* the elements of Catalogue of each document that is validated: the
\* scenario, the whole catalogue, a document without a header and a document
\* without totals
ValidatorCases == <<{1, 2, 3, 4}, {1, 2, 3, 4, 5, 6}, {3, 4}, {1, 2, 6}>>

\* the extracted fields validate_all is called with
ValidatorInput(k) == extract_all_fields(Pick(Catalogue, ValidatorCases[k]))

ValidatorInputs == {ValidatorInput(k) : k \in 1..Len(ValidatorCases)}

MaxCalls == 3

SequentialInit ==
    /\ ocr_results = <<>>
    /\ layout = NoLayout
    /\ fields = NoFields
    /\ now \in Todays
    /\ validation_results = <<>>
    /\ calls = <<>>
    /\ argument = NoArgument
    /\ result = NoResult
    /\ Constructed

\* one more validate_all call, made when the one before has returned
SequentialNext ==
    \E extracted_data \in ValidatorInputs :
        Len(calls) < MaxCalls /\ ValidateAll(extracted_data)

SpecSequential == SequentialInit /\ [][SequentialNext]_vars

\* a validate_all call that is made and has not started
Call(extracted_data) ==
    [extracted_data |-> extracted_data, pc |-> Called, report |-> NoReport]

ConcurrentInit ==
    /\ ocr_results = <<>>
    /\ layout = NoLayout
    /\ fields = NoFields
    /\ now \in Todays
    /\ validation_results = <<>>
    /\ calls \in {<<Call(ValidatorInput(j)), Call(ValidatorInput(k))>> :
                     j, k \in {i \in 1..Len(ValidatorCases) : i # 2}} \
                 {<<Call(a), Call(a)>> : a \in ValidatorInputs}
    /\ argument = NoArgument
    /\ result = NoResult
    /\ Constructed

\* self.validation_results = [], by call c
ResetResults(c) ==
    /\ calls[c].pc = Called
    /\ validation_results' = validation_results_reset(validation_results)
    /\ calls' = [calls EXCEPT ![c].pc = 1]
    /\ UNCHANGED <<ocr_results, layout, fields, now, argument, result, max_retries, stats, frames>>

\* the next check group of call c, appending to self.validation_results
CheckGroup(c) ==
    /\ calls[c].pc \in 1..check_groups
    /\ validation_results' =
           check_group(calls[c].pc, calls[c].extracted_data, validation_results, now)
    /\ calls' = [calls EXCEPT ![c].pc = @ + 1]
    /\ UNCHANGED <<ocr_results, layout, fields, now, argument, result, max_retries, stats, frames>>

\* report = self._generate_report(extracted_data); return report, by call c
GenerateReport(c) ==
    /\ calls[c].pc = Reporting
    /\ calls' = [calls EXCEPT ![c].report = generate_report(validation_results),
                              ![c].pc = Returned]
    /\ UNCHANGED <<ocr_results, layout, fields, now, validation_results, argument, result, max_retries, stats, frames>>

ConcurrentNext ==
    \E c \in 1..Len(calls) : ResetResults(c) \/ CheckGroup(c) \/ GenerateReport(c)

SpecConcurrent == ConcurrentInit /\ [][ConcurrentNext]_vars

----------------------------------------------------------------------------
(* Claims about validate_all on a shared validator *)

\* C3: when two validate_all calls on different inputs run concurrently on
\* the same InvoiceValidator, interleaved at the granularity of the ten
\* check groups, each call returns exactly the report it returns when run
\* alone.
C3_ConcurrentReports ==
    \A c \in 1..Len(calls) :
        calls[c].pc = Returned =>
            calls[c].report = validate_all(calls[c].extracted_data, now)

\* a call returns a report that holds results of the other call's checks
C3_Observed ==
    \E c \in 1..Len(calls) :
        /\ calls[c].pc = Returned
        /\ calls[c].report.summary.total_checks >
               validate_all(calls[c].extracted_data, now).summary.total_checks

\* a call returns a report that lacks results of its own checks, the other
\* call having reset the list in between
C3_ObservedLost ==
    \E c \in 1..Len(calls) :
        /\ calls[c].pc = Returned
        /\ calls[c].report.summary.total_checks <
               validate_all(calls[c].extracted_data, now).summary.total_checks

\* C4: in any sequence of sequential validate_all calls on one validator,
\* the report returned for an input is the report a fresh validator returns
\* for it, and two calls on the same input return identical reports.
C4_SequentialReports ==
    /\ \A k \in 1..Len(calls) :
          calls[k].report = validate_all(calls[k].extracted_data, now)
    /\ \A j, k \in 1..Len(calls) :
          calls[j].extracted_data = calls[k].extracted_data =>
              calls[j].report = calls[k].report

C4_Witness ==
    /\ Len(calls) = 3
    /\ calls[1].extracted_data = calls[3].extracted_data
    /\ calls[1].extracted_data # calls[2].extracted_data
    /\ calls[1].report # calls[2].report
    /\ calls[3].report.summary.total_checks > 0
    /\ validation_results = calls[3].report.all_results

----------------------------------------------------------------------------
(* The text functions: one call of a function of a text, on its own *)

\* the rest of the pipeline takes no part in a call of a text function
PipelineIdle ==
    /\ ocr_results = <<>>
    /\ layout = NoLayout
    /\ fields = NoFields
    /\ now = ExampleDay
    /\ validation_results = <<>>
    /\ calls = <<>>

\* the numbers of the amount texts: zero, amounts in range, the bound and
\* amounts a pattern reads at or above the bound
AmountNumbers ==
    { <<>>, <<"0">>, <<"0",".","0","0">>, <<"0",",","5">>, <<"5">>, <<"1","2",".","5","0">>, <<"1",",","2","5","0",".","0","0">>,
      <<"1","0","0","0","0","0","0","0","0","0">>, <<"9","9","9","9","9","9","9","9","9",".","9","9">>, <<"1",",","0","0","0",",","0","0","0",",","0","0","0">>,
      <<"9","9","9",",","9","9","9",",","9","9","9",".","9","9">>, <<"U+0665","U+0660">>, <<"2"," ","5","0","0">> }

AmountPrefixes == { <<>>, <<"$">>, <<"T","o","t","a","l",":"," ">>, <<"-">> }

AmountSuffixes == { <<>>, <<" ","S","A","R">>, <<" ","0",".","0","0">> }

\* the texts _extract_amount_from_text is called with
AmountTexts ==
    {p \o n \o s : p \in AmountPrefixes, n \in AmountNumbers, s \in AmountSuffixes}

AmountTextInit ==
    /\ PipelineIdle
    /\ argument \in AmountTexts
    /\ result = NoResult
    /\ Constructed

\* self._extract_amount_from_text(text)
ExtractAmountFromText ==
    /\ result = NoResult
    /\ result' = Return(extract_amount_from_text(argument))
    /\ UNCHANGED <<ocr_results, layout, fields, now, validation_results, calls,
                   argument, max_retries, stats, frames>>

SpecAmountText == AmountTextInit /\ [][ExtractAmountFromText]_vars

\* strictly between 0 and 1,000,000,000
InAmountRange(amount) ==
    /\ amount.w >= 0 /\ amount.f >= 0
    /\ amount.w + amount.f > 0
    /\ amount.w < 1000000000

\* the number clean_amount makes of a match, nothing without a match
amount_read(text, match) ==
    IF match.found THEN Some(clean_amount(group1_or_all(match, text))) ELSE None

\* what a pattern of number_patterns reads in a text: nothing, or the number
\* clean_amount makes of the match
AmountRead(p, text) == amount_read(text, SearchPattern(number_patterns[p], text))

\* what each pattern of number_patterns reads in a text
AmountReads(text) ==
    Tuple([p \in 1..Len(number_patterns) |-> AmountRead(p, text)])

\* value is what the first reading in range gives, None when there is none
FirstInRange(reads, value) ==
    LET good == {p \in 1..Len(reads) :
                    reads[p] # None /\ InAmountRange(Val(reads[p]))}
    IN  /\ value # None => InAmountRange(Val(value))
        /\ good = {} => value = None
        /\ good # {} =>
               \E p \in good : (\A q \in good : p <= q) /\ value = reads[p]

\* C11: _extract_amount_from_text returns None or a number strictly between
\* 0 and 1e9: the number the first pattern reads in range, a pattern that
\* reads a number out of range being skipped for the next; None when no
\* pattern reads a number in range.
C11_AmountRange ==
    result # NoResult =>
        FirstInRange(AmountReads(normalize_arabic_numbers(argument)), result.value)

\* '1,000,000,000' is read as 1e9 by the first pattern, which is skipped,
\* and as 1 by the second
C11_Witness ==
    /\ argument = <<"1",",","0","0","0",",","0","0","0",",","0","0","0">>
    /\ AmountRead(1, argument) = Some(Dec(1000000000, 0))
    /\ result = Return(Some(Dec(1, 0)))

\* a text whose every reading is out of range
C11_WitnessNone ==
    /\ argument = <<"0",".","0","0"," ","0",".","0","0">>
    /\ \E p \in 1..Len(number_patterns) : AmountRead(p, argument) # None
    /\ result = Return(None)

----------------------------------------------------------------------------
(* clean_amount on formatted amounts *)

\* str(n) of a natural number
RECURSIVE digits_of(_)
digits_of(n) ==
    IF n < 10 THEN <<WesternDigits[n + 1]>>
    ELSE digits_of(n \div 10) \o <<WesternDigits[(n % 10) + 1]>>

\* the digits in groups of three from the right, sep between the groups
RECURSIVE grouped(_, _)
grouped(ds, sep) ==
    IF Len(ds) <= 3 THEN ds
    ELSE grouped(SubSeq(ds, 1, Len(ds) - 3), sep) \o <<sep>>
         \o SubSeq(ds, Len(ds) - 2, Len(ds))

\* an amount with two decimals, formatted with a thousands separator and a
\* decimal separator
formatted(amount, thousands, decimal) ==
    grouped(digits_of(amount.w), thousands) \o <<decimal>>
    \o <<WesternDigits[(amount.f \div 10) + 1], WesternDigits[(amount.f % 10) + 1]>>

\* the whole units and the hundredths of the formatted amounts
FormattedWholes == {0, 1, 12, 123, 999, 1000, 1234, 12345, 100000, 999999,
                    1000000, 1234567}

FormattedHundredths == {0, 1, 5, 10, 50, 56, 99}

\* the two locales: thousands separator, decimal separator
Locales == { <<",", ".">>, <<".", ",">> }

CleanAmountArguments ==
    {[amount |-> Dec(w, f), amount_str |-> formatted(Dec(w, f), l[1], l[2])] :
        w \in FormattedWholes, f \in FormattedHundredths, l \in Locales}

CleanAmountInit ==
    /\ PipelineIdle
    /\ argument \in CleanAmountArguments
    /\ result = NoResult
    /\ Constructed

\* self.patterns.clean_amount(amount_str)
CleanAmount ==
    /\ result = NoResult
    /\ result' = Return(clean_amount(argument.amount_str))
    /\ UNCHANGED <<ocr_results, layout, fields, now, validation_results, calls,
                   argument, max_retries, stats, frames>>

SpecCleanAmount == CleanAmountInit /\ [][CleanAmount]_vars

\* C12: for a non-negative amount with two decimals formatted with ',' as
\* thousands and '.' as decimal separator, or with '.' as thousands and ','
\* as decimal separator, clean_amount(formatted) is the amount within 0.01.
C12_CleanAmountRoundTrip ==
    result # NoResult =>
        Abs(Cents(result.value) - Cents(argument.amount)) <= 1

\* 1234.56 in both locales, read back
C12_Witness ==
    /\ argument.amount = Dec(1234, 56)
    /\ argument.amount_str = <<"1",".","2","3","4",",","5","6">>
    /\ result = Return(Dec(1234, 56))

\* an amount below 1000 with the comma as its only separator
C12_WitnessCommaOnly ==
    /\ argument.amount_str = <<"1","2","3",",","0","5">>
    /\ result = Return(Dec(123, 5))

----------------------------------------------------------------------------
(* The validation specification: validate_all on extracted fields that     *)
(* differ in their amounts, dates, currency and confidence                 *)

\* a field with a value
Field(value, confidence) == [value |-> Some(value), confidence |-> confidence]

\* an amount field, of an amount given in whole units or absent
AmountField(whole) ==
    IF whole = None THEN no_value ELSE Field(Dec(Val(whole), 0), 900)

\* a date or currency field, of a text or absent
TextField(text) ==
    IF text = None THEN no_value ELSE Field(Val(text), 900)

\* extracted fields that pass every check on the day of the example
GoodInvoice ==
    [invoice_number |-> Field(T_InvoiceNumber, 900),
     dates |-> [invoice_date |-> Field(T_InvoiceDate, 900),
                due_date |-> Field(<<"2","0","2","4","-","0","2","-","1","5">>, 900),
                other_dates |-> <<>>],
     amounts |-> [total |-> AmountField(Some(1150)),
                  subtotal |-> AmountField(Some(1000)),
                  tax |-> AmountField(Some(150)),
                  discount |-> no_value],
     tax_info |-> [tax_id |-> no_value, tax_percentage |-> Field(Dec(15, 0), 900)],
     vendor_info |-> [name |-> Field(<<"A","c","m","e"," ","C","o","r","p">>, 900), address |-> no_list,
                      phone |-> no_value, email |-> no_value],
     customer_info |-> [name |-> no_value, address |-> no_list],
     line_items |-> << [description |-> <<"W","i","d","g","e","t">>, quantity |-> None,
                        unit_price |-> None, amount |-> Some(Dec(1000, 0)),
                        confidence |-> 900] >>,
     currency |-> Field(<<"E","G","P">>, 800),
     payment_terms |-> no_value,
     metadata |-> [extraction_confidence |-> [sum |-> 15300, n |-> 17],
                   fields_extracted |-> 9,
                   total_fields |-> total_fields]]

\* total, subtotal and tax in whole units: consistent, off by less than, by
\* exactly and by more than 2% of the total, and with one of them absent
AmountCases ==
    { <<Some(1150), Some(1000), Some(150)>>, <<Some(1150), Some(1000), Some(100)>>,
      <<Some(100), Some(98), Some(0)>>, <<Some(100), Some(97), Some(0)>>,
      <<Some(100), Some(90), Some(12)>>, <<Some(100), Some(90), Some(13)>>,
      <<Some(100), Some(99), Some(0)>>,
      <<Some(1150), None, Some(150)>>, <<Some(1150), Some(1000), None>>,
      <<None, Some(1000), Some(100)>> }

\* invoice date and due date
DateCases ==
    { <<Some(T_InvoiceDate), Some(<<"2","0","2","4","-","0","2","-","1","5">>)>>,
      <<Some(<<"2","0","2","4","-","0","2","-","1","5">>), Some(T_InvoiceDate)>>,
      <<Some(T_InvoiceDate), Some(T_InvoiceDate)>>,
      <<Some(<<"2","0","2","4","-","2","-","1","5">>), Some(<<"2","0","2","4","-","1","-","1","5">>)>>,
      <<Some(T_InvoiceDate), None>>,
      <<None, Some(T_InvoiceDate)>>,
      <<Some(<<"2","0","2","4","-","0","2","-","1","5">>), Some(<<"1","5","/","0","1","/","2","0","2","4">>)>> }

CurrencyCases == { Some(<<"E","G","P">>), Some(USD), Some(<<"X","Y","Z">>), Some(<<"u","s","d">>), Some(<<>>), None }

\* the sum of the seventeen confidences: a good, a low and a poor average
ConfidenceCases == { 15300, 10200, 5100 }

ValidateInput(amounts, dates, currency, confidence) ==
    [GoodInvoice EXCEPT
        !.amounts.total = AmountField(amounts[1]),
        !.amounts.subtotal = AmountField(amounts[2]),
        !.amounts.tax = AmountField(amounts[3]),
        !.dates.invoice_date = TextField(dates[1]),
        !.dates.due_date = TextField(dates[2]),
        !.currency = TextField(currency),
        !.metadata.extraction_confidence.sum = confidence]

ValidateInputs ==
    {ValidateInput(a, d, c, s) :
        a \in AmountCases, d \in DateCases, c \in CurrencyCases, s \in ConfidenceCases}

ValidateInit ==
    /\ ocr_results = <<>>
    /\ layout = NoLayout
    /\ fields \in ValidateInputs
    /\ now \in Todays
    /\ validation_results = <<>>
    /\ calls = <<>>
    /\ argument = NoArgument
    /\ result = NoResult
    /\ Constructed

SpecValidate == ValidateInit /\ [][ValidateFields]_vars

----------------------------------------------------------------------------
(* Claims about the checks of validate_all *)

\* a failed result of a severity on a field
HasFailed(results, field, severity) ==
    \E k \in 1..Len(results) :
        /\ results[k].field = field
        /\ ~ results[k].is_valid
        /\ results[k].severity = severity

\* a failed result of a severity on any field
AnyFailed(results, severity) ==
    \E k \in 1..Len(results) : ~ results[k].is_valid /\ results[k].severity = severity

\* total, subtotal and tax in hundredths differ by more than 2% of the total
OffByMoreThanTolerance(total, subtotal, tax) ==
    Abs(total - (subtotal + tax)) * 50 > total

\* the amounts of a call's argument, in whole units
AmountsAre(c, total, subtotal, tax) ==
    /\ calls[c].extracted_data.amounts.total.value = Some(Dec(total, 0))
    /\ calls[c].extracted_data.amounts.subtotal.value = Some(Dec(subtotal, 0))
    /\ calls[c].extracted_data.amounts.tax.value = Some(Dec(tax, 0))

C13_WitnessConsistent ==
    /\ calls # <<>>
    /\ AmountsAre(1, 1150, 1000, 150)
    /\ ~ HasFailed(calls[1].report.all_results, "amounts", "warning")

\* total 100, subtotal 98, tax 0: off by exactly 2%, no warning
C13_WitnessAtTolerance ==
    /\ calls # <<>>
    /\ AmountsAre(1, 100, 98, 0)
    /\ ~ HasFailed(calls[1].report.all_results, "amounts", "warning")

\* C14: the report's overall_status is FAILED if the run produced a failed
\* result of severity error, otherwise WARNING if it produced a failed
\* result of severity warning, otherwise PASSED.
C14_OverallStatus ==
    \A c \in 1..Len(calls) :
        calls[c].report.overall_status =
            IF AnyFailed(calls[c].report.all_results, "error") THEN "FAILED"
            ELSE IF AnyFailed(calls[c].report.all_results, "warning") THEN "WARNING"
            ELSE "PASSED"

\* a run with failed errors and failed warnings: FAILED
C14_Witness ==
    /\ calls # <<>>
    /\ AnyFailed(calls[1].report.all_results, "error")
    /\ AnyFailed(calls[1].report.all_results, "warning")
    /\ calls[1].report.overall_status = "FAILED"

\* a run with failed warnings only: WARNING
C14_WitnessWarning ==
    /\ calls # <<>>
    /\ ~ AnyFailed(calls[1].report.all_results, "error")
    /\ AnyFailed(calls[1].report.all_results, "warning")
    /\ calls[1].report.overall_status = "WARNING"

\* a run without a failed result: PASSED
C14_WitnessPassed ==
    /\ calls # <<>>
    /\ AmountsAre(1, 1150, 1000, 150)
    /\ \A k \in 1..Len(calls[1].report.all_results) :
          calls[1].report.all_results[k].is_valid
    /\ calls[1].report.overall_status = "PASSED"

\* both dates parse as YYYY-MM-DD and the due date is the earlier one
DueBeforeInvoice(dates) ==
    /\ Present(dates.invoice_date.value)
    /\ Present(dates.due_date.value)
    /\ strptime(Val(dates.invoice_date.value)) # None
    /\ strptime(Val(dates.due_date.value)) # None
    /\ toordinal(Val(strptime(Val(dates.due_date.value))))
           < toordinal(Val(strptime(Val(dates.invoice_date.value))))

\* C15: when invoice_date and due_date both parse as YYYY-MM-DD and due_date
\* is earlier than invoice_date, validate_all emits a failed error-severity
\* result on field dates.due_date, and overall_status is FAILED.
C15_DueBeforeInvoiceDate ==
    \A c \in 1..Len(calls) :
        DueBeforeInvoice(calls[c].extracted_data.dates) =>
            /\ HasFailed(calls[c].report.all_results, "dates.due_date", "error")
            /\ calls[c].report.overall_status = "FAILED"

\* invoice 2024-02-15, due 2024-01-15
C15_Witness ==
    /\ calls # <<>>
    /\ calls[1].extracted_data.dates.invoice_date.value = Some(<<"2","0","2","4","-","0","2","-","1","5">>)
    /\ calls[1].extracted_data.dates.due_date.value = Some(<<"2","0","2","4","-","0","1","-","1","5">>)
    /\ HasFailed(calls[1].report.errors, "dates.due_date", "error")
    /\ calls[1].report.overall_status = "FAILED"

\* the results of the check groups of validate_all before the k-th
RECURSIVE ResultsBefore(_, _, _)
ResultsBefore(k, data, today) ==
    IF k = 1 THEN <<>>
    ELSE check_group(k - 1, data, ResultsBefore(k - 1, data, today), today)

\* the results a run's k-th check group added, as the report lists them
ResultsOfGroup(k, data, today, all_results) ==
    SubSeq(all_results, Len(ResultsBefore(k, data, today)) + 1,
                        Len(ResultsBefore(k + 1, data, today)))

\* the one result of the currency check is as the claim says
CurrencyResultIs(value, r) ==
    /\ r.field = "currency"
    /\ (value # None /\ Val(value) # <<>> /\ Val(value) \notin valid_currencies)
           => /\ ~ r.is_valid
              /\ r.severity = "warning"
              /\ r.message = <<"Unusual currency code", Val(value)>>
    /\ (value # None /\ Val(value) \in valid_currencies)
           => r.is_valid /\ r.severity = "info"

\* C16: the currency check emits a failed warning 'Unusual currency code'
\* for a present currency value outside the whitelist and a valid info
\* result for a value inside it; exactly one currency-check result is
\* emitted per run.
C16_CurrencyCheck ==
    \A c \in 1..Len(calls) :
        LET emitted == ResultsOfGroup(6, calls[c].extracted_data, now,
                                      calls[c].report.all_results)
        IN  /\ Len(emitted) = 1
            /\ CurrencyResultIs(calls[c].extracted_data.currency.value, emitted[1])

\* 'XYZ': the warning
C16_Witness ==
    /\ calls # <<>>
    /\ calls[1].extracted_data.currency.value = Some(<<"X","Y","Z">>)
    /\ <<"X","Y","Z">> \notin valid_currencies
    /\ \E k \in 1..Len(calls[1].report.warnings) :
          calls[1].report.warnings[k].message = <<"Unusual currency code", <<"X","Y","Z">>>>

\* 'EGP': valid, info
C16_WitnessValid ==
    /\ calls # <<>>
    /\ calls[1].extracted_data.currency.value = Some(<<"E","G","P">>)
    /\ ~ HasFailed(calls[1].report.all_results, "currency", "warning")
    /\ \E k \in 1..Len(calls[1].report.info) :
          calls[1].report.info[k].message = <<"Currency validated", <<"E","G","P">>>>

----------------------------------------------------------------------------
(* Claims about the strategies of the field extractor, checked under
   SpecExtract *)

\* the fields and sub-fields of extract_all_fields' result that hold one value
Envelopes(extracted) ==
    << extracted.invoice_number,
       extracted.dates.invoice_date, extracted.dates.due_date,
       extracted.amounts.total, extracted.amounts.subtotal,
       extracted.amounts.tax, extracted.amounts.discount,
       extracted.tax_info.tax_id, extracted.tax_info.tax_percentage,
       extracted.vendor_info.name, extracted.vendor_info.phone,
       extracted.vendor_info.email,
       extracted.customer_info.name,
       extracted.currency, extracted.payment_terms >>

\* {value: null, confidence: 0.0, source: null}
IsZeroValueEnvelope(envelope) ==
    /\ envelope.value = None
    /\ envelope.confidence = 0
    /\ "source" \in DOMAIN envelope
    /\ envelope.source = None

\* C17: extract_all_fields returns for every element list, the empty list
\* included, and every field or sub-field for which no strategy found a value
\* carries value null, confidence 0.0 and source null.
C17_AbsenceEnvelope ==
    fields # NoFields =>
        \A k \in 1..Len(Envelopes(fields)) :
            Envelopes(fields)[k].value = None
                => IsZeroValueEnvelope(Envelopes(fields)[k])

\* the empty list: extract_all_fields returns, invoice_number carries a null
\* source and the due date carries none
C17_Observed ==
    /\ ocr_results = <<>>
    /\ fields # NoFields
    /\ IsZeroValueEnvelope(fields.invoice_number)
    /\ fields.dates.due_date.value = None
    /\ fields.dates.due_date.confidence = 0
    /\ "source" \notin DOMAIN fields.dates.due_date
    /\ fields.vendor_info.address.value = <<>>

\* what holds of an absent value: null with confidence 0.0
C17_AbsentValueZeroConfidence ==
    fields # NoFields =>
        \A k \in 1..Len(Envelopes(fields)) :
            Envelopes(fields)[k].value = None => Envelopes(fields)[k].confidence = 0

----------------------------------------------------------------------------
(* The strategies specification: extraction and validation of documents
   that hold a field more than once *)

\* a document's dates and total: a due date with a date to its right, a due
\* date label with its date, a total with an amount to its right
DatesCatalogue ==
    << [text |-> <<"D","u","e"," ","D","a","t","e",":"," ","2","0","2","4","-","0","2","-","1","5">>, x |-> 80, y |-> 100, confidence |-> 940],
       [text |-> <<"2","0","2","4","-","0","3","-","0","1">>, x |-> 350, y |-> 100, confidence |-> 910],
       [text |-> <<"D","u","e"," ","D","a","t","e",":">>, x |-> 80, y |-> 140, confidence |-> 930],
       [text |-> <<"2","0","2","4","-","0","2","-","2","0">>, x |-> 300, y |-> 140, confidence |-> 900],
       [text |-> <<"T","o","t","a","l",":"," ","1","0","0",".","0","0">>, x |-> 50, y |-> 810, confidence |-> 970],
       [text |-> <<"2","0","0",".","0","0">>, x |-> 300, y |-> 810, confidence |-> 900] >>

\* a document's tax lines: two percentages and two tax numbers
TaxCatalogue ==
    << [text |-> <<"V","A","T"," ","1","5","%">>, x |-> 80, y |-> 400, confidence |-> 950],
       [text |-> <<"T","a","x"," ","5","%">>, x |-> 80, y |-> 450, confidence |-> 920],
       [text |-> <<"T","A","X","1","2","3","4","5","6","7","8","9">>, x |-> 80, y |-> 500, confidence |-> 900],
       [text |-> <<"V","A","T","-","G","B","1","2","3","4","5","6","7","8","9">>, x |-> 80, y |-> 550, confidence |-> 880] >>

\* a document's amounts: a total and a tax with their amounts in the totals
\* zone, a subtotal, an amount due with its amount above the totals zone,
\* and a tax larger than the total
AmountsCatalogue ==
    << [text |-> <<"T","o","t","a","l",":">>, x |-> 50, y |-> 810, confidence |-> 970],
       [text |-> <<"1","1","5",".","0","0">>, x |-> 200, y |-> 810, confidence |-> 990],
       [text |-> <<"T","a","x",":">>, x |-> 50, y |-> 850, confidence |-> 960],
       [text |-> <<"1","5",".","0","0">>, x |-> 200, y |-> 850, confidence |-> 950],
       [text |-> <<"S","u","b","t","o","t","a","l",":"," ","9","0",".","0","0">>, x |-> 50, y |-> 780, confidence |-> 940],
       [text |-> <<"A","m","o","u","n","t"," ","D","u","e",":">>, x |-> 50, y |-> 600, confidence |-> 930],
       [text |-> <<"2","3","0",".","0","0">>, x |-> 200, y |-> 600, confidence |-> 920],
       [text |-> <<"V","A","T",":"," ","1","2","0",".","0","0">>, x |-> 50, y |-> 900, confidence |-> 910] >>

\* two rows of an items table, a description and an amount each, the second
\* with a quantity between them
ItemsCatalogue ==
    << [text |-> <<"W","i","d","g","e","t">>, x |-> 100, y |-> 400, confidence |-> 930],
       [text |-> <<"1","0",".","0","0">>, x |-> 500, y |-> 400, confidence |-> 940],
       [text |-> <<"G","a","d","g","e","t">>, x |-> 100, y |-> 500, confidence |-> 950],
       [text |-> <<"2">>, x |-> 300, y |-> 500, confidence |-> 960],
       [text |-> <<"2","0",".","0","0">>, x |-> 500, y |-> 500, confidence |-> 970] >>

\* what an OCR run finds of one of the catalogues
StrategyInputs ==
    {Pick(DatesCatalogue, S) : S \in SUBSET (1..Len(DatesCatalogue))}
        \cup {Pick(TaxCatalogue, S) : S \in SUBSET (1..Len(TaxCatalogue))}
        \cup {Pick(AmountsCatalogue, S) : S \in SUBSET (1..Len(AmountsCatalogue))}
        \cup {Pick(ItemsCatalogue, S) : S \in SUBSET (1..Len(ItemsCatalogue))}

StrategyInit ==
    /\ ocr_results \in StrategyInputs
    /\ layout = NoLayout
    /\ fields = NoFields
    /\ now \in Todays
    /\ validation_results = <<>>
    /\ calls = <<>>
    /\ argument = NoArgument
    /\ result = NoResult
    /\ Constructed

SpecStrategies == StrategyInit /\ [][ExtractNext]_vars

\* extract_dates' dates after Strategy 1
DatesByKeyword(els, lay) ==
    dates_by_keyword(els, lay.zones["header"] \o lay.zones["vendor"],
        [invoice_date |-> no_value, due_date |-> no_value, other_dates |-> <<>>])

\* extract_dates' dates after Strategy 2
DatesByPattern(els, lay) ==
    dates_by_pattern(els, lay.zones["header"] \o lay.zones["vendor"],
                     DatesByKeyword(els, lay))

\* a field that has a value after a strategy is the field that is returned
Kept(after_strategy, returned) ==
    after_strategy.value # None => returned = after_strategy

\* the strategies of extract_dates and extract_amounts, one after the other,
\* keep every field that has a value
FirstStrategyWins(els, lay, extracted) ==
    /\ Kept(DatesByKeyword(els, lay).due_date, extracted.dates.due_date)
    /\ Kept(DatesByKeyword(els, lay).invoice_date, extracted.dates.invoice_date)
    /\ Kept(DatesByPattern(els, lay).invoice_date, extracted.dates.invoice_date)
    /\ \A type \in {"total", "subtotal", "tax", "discount"} :
          /\ Kept(amounts_by_keyword(els, lay.zones["totals"])[type],
                  extracted.amounts[type])
          /\ Kept(calculated_subtotal(amounts_by_keyword(els, lay.zones["totals"]))[type],
                  extracted.amounts[type])

\* C18: per field the first successful strategy wins: once an earlier
\* strategy has produced a value for a field, no later strategy replaces the
\* field's value, confidence or source; a due_date found by keyword search
\* is not replaced by the key-value-pair strategy.
C18_FirstStrategyWins ==
    fields # NoFields => FirstStrategyWins(ocr_results, analyze(ocr_results), fields)

\* 'Due Date: 2024-02-15' with '2024-03-01' to its right: the keyword search
\* finds 2024-02-15, the pair replaces it
C18_Observed ==
    /\ ocr_results = Pick(DatesCatalogue, {1, 2})
    /\ fields # NoFields
    /\ DatesByKeyword(ocr_results, analyze(ocr_results)).due_date =
           [value |-> Some(<<"2","0","2","4","-","0","2","-","1","5">>), confidence |-> 940,
            source |-> Some("keyword_proximity")]
    /\ fields.dates.due_date =
           [value |-> Some(<<"2","0","2","4","-","0","3","-","0","1">>), confidence |-> 910,
            source |-> Some("key_value_pair")]

\* the amounts and the invoice date are kept: 'Total: 100.00' with '200.00'
\* to its right stays 100.00
C18_ObservedKept ==
    /\ ocr_results = Pick(DatesCatalogue, {5, 6})
    /\ fields # NoFields
    /\ analyze(ocr_results).key_value_pairs # <<>>
    /\ fields.amounts.total.value = Some(Dec(100, 0))
    /\ fields.amounts.total.source = Some("keyword_same_element")

\* what holds: every field but due_date keeps its first value
C18_FirstStrategyWinsButDueDate ==
    fields # NoFields =>
        FirstStrategyWins(ocr_results, analyze(ocr_results),
            [fields EXCEPT !.dates.due_date =
                IF DatesByKeyword(ocr_results, analyze(ocr_results)).due_date.value # None
                THEN DatesByKeyword(ocr_results, analyze(ocr_results)).due_date
                ELSE @])

\* the first of the elements a pattern is found in, with the match's group 1
first_of_hits(els, pattern, hits) ==
    IF hits = <<>> THEN None
    ELSE Some([element |-> hits[1],
               group1 |-> Val(GroupN(SearchPattern(pattern, els[hits[1]].text),
                                     els[hits[1]].text, 1))])

\* the first element of ocr_results a pattern of tax_patterns is found in
first_tax_match(els, name) ==
    first_of_hits(els, tax_pattern(name), elements_matching(els, tax_pattern(name)))

\* C19: tax_id is taken from the first element in input order whose text
\* matches the tax-ID pattern, and tax_percentage from the first element
\* that matches the tax-percentage pattern, regardless of later matching
\* elements.
C19_FirstTaxMatchWins ==
    fields # NoFields =>
        /\ fields.tax_info.tax_id =
               tax_id_field(ocr_results, first_tax_match(ocr_results, "tax_id"))
        /\ fields.tax_info.tax_percentage =
               tax_percentage_field(ocr_results,
                                    first_tax_match(ocr_results, "tax_percentage"))

\* 'VAT 15%', 'Tax 5%', 'TAX123456789', 'VAT-GB123456789' in this order: the
\* percentage is 5 and the tax number GB123456789, those of the last matches
C19_Observed ==
    /\ ocr_results = TaxCatalogue
    /\ fields # NoFields
    /\ first_tax_match(ocr_results, "tax_percentage") =
           Some([element |-> 1, group1 |-> <<"1","5">>])
    /\ first_tax_match(ocr_results, "tax_id") =
           Some([element |-> 3, group1 |-> <<"1","2","3","4","5","6","7","8","9">>])
    /\ fields.tax_info.tax_percentage =
           [value |-> Some(Dec(5, 0)), confidence |-> 920,
            source |-> Some("pattern_tax_percentage")]
    /\ fields.tax_info.tax_id =
           [value |-> Some(<<"G","B","1","2","3","4","5","6","7","8","9">>), confidence |-> 880,
            source |-> Some("pattern_tax_id")]

----------------------------------------------------------------------------
(* OCRPostProcessor.fix_currency *)

EGP == <<"E","G","P">>

\* self.currency_fixes, in the order of the dict
currency_fixes ==
    << [wrong |-> <<"E","G","E">>, correct |-> EGP],
       [wrong |-> <<"E","G">>, correct |-> EGP],
       [wrong |-> <<"E","G","U+062A">>, correct |-> EGP],
       [wrong |-> <<"E","G","U+061F">>, correct |-> EGP],
       [wrong |-> <<"U+0664","G","U+061F">>, correct |-> EGP],
       [wrong |-> <<"E","G","U+0641">>, correct |-> EGP],
       [wrong |-> <<"E","E","P">>, correct |-> EGP],
       [wrong |-> <<"E","6","P">>, correct |-> EGP],
       [wrong |-> <<"E","0","P">>, correct |-> EGP],
       [wrong |-> <<"E","O","P">>, correct |-> EGP],
       [wrong |-> <<"[","6","P">>, correct |-> EGP],
       [wrong |-> <<"[","0","P">>, correct |-> EGP],
       [wrong |-> <<"E","P">>, correct |-> EGP] >>

\* the text with every match replaced by Repl(match)
sub_pieces(text, ms, Repl(_)) ==
    Concat(Tuple([k \in 1..Len(ms) |->
        SubSeq(text, (IF k = 1 THEN 0 ELSE ms[k - 1].end) + 1, ms[k].start)
            \o Repl(ms[k])]))
      \o SubSeq(text, (IF ms = <<>> THEN 0 ELSE ms[Len(ms)].end) + 1, Len(text))

\* re.sub(pattern, repl, text)
re_sub(r, text, ic, Repl(_)) == sub_pieces(text, FindAll(r, text, ic), Repl)

\* egp_pattern (re.VERBOSE | re.IGNORECASE):
\* (?:[٤E][0O6oGgGق\[]?[Pp؟\)]+|E+P|\b[0O6][Pp]|\[[0O6]?[Pp])(?=\s|$|\d)
re_egp_pattern ==
    ReSeq(<<ReAlt(<<
        ReSeq(<<ReCls({"U+0664","E"}),
                ReOpt(ReCls({"0","O","6","o","G","g","U+0642","["})),
                RePlus(ReCls({"P","p","U+061F",")"}))>>),
        ReSeq(<<RePlus(ReLit(<<"E">>)), ReLit(<<"P">>)>>),
        ReSeq(<<ReWB, ReCls({"0","O","6"}), ReCls({"P","p"})>>),
        ReSeq(<<ReLit(<<"[">>), ReOpt(ReCls({"0","O","6"})), ReCls({"P","p"})>>)>>),
        ReLook(ReAlt(<<ReCls(ReSpace), ReEOL, ReCls(ReDigit)>>))>>)

\* Step 1: every EGP variation becomes EGP
egp_variations_replaced(text) ==
    re_sub(re_egp_pattern, text, TRUE, LAMBDA match : EGP)

\* Step 2: self.arabic_digits, `text.replace(arabic, western)` for each digit
arabic_digits_converted(text) ==
    Tuple([i \in 1..Len(text) |->
        IF text[i] \in Range(ArabicDigits)
        THEN WesternDigits[FirstIndex(ArabicDigits, text[i])]
        ELSE text[i]])

\* Step 3, one entry: \b + re.escape(wrong) + \b (re.IGNORECASE) for the
\* codes of three characters and more; an empty text holds no code
known_pattern_fixed(text, fix) ==
    IF Len(fix.wrong) >= 3 /\ text # <<>>
    THEN re_sub(ReSeq(<<ReWB, ReLit(fix.wrong), ReWB>>), text, TRUE,
                LAMBDA match : fix.correct)
    ELSE text

\* Step 3: the loop over self.currency_fixes from the k-th entry on
RECURSIVE known_patterns_fixed_from(_, _)
known_patterns_fixed_from(text, k) ==
    IF k > Len(currency_fixes) THEN text
    ELSE known_patterns_fixed_from(known_pattern_fixed(text, currency_fixes[k]), k + 1)

\* Step 3: only when the text is not EGP already
known_patterns_fixed(text) ==
    IF upper(text) # EGP THEN known_patterns_fixed_from(text, 1) ELSE text

\* Step 4: re.sub(r'\[(\d)', r'EGP \1', text)
bracket_digit_fixed(text) ==
    re_sub(ReSeq(<<ReLit(<<"[">>), ReGrp(1, ReCls(ReDigit))>>), text, FALSE,
           LAMBDA match : EGP \o <<" ">> \o Val(GroupN(match, text, 1)))

\* str.startswith
startswith(text, prefix) ==
    Len(text) >= Len(prefix) /\ SubSeq(text, 1, Len(prefix)) = prefix

\* the steps of fix_currency with the digits converted before the patterns
\* are applied
fix_currency_digits_first(text) ==
    IF upper(text) = EGP \/ startswith(upper(text), EGP \o <<" ">>) THEN text
    ELSE bracket_digit_fixed(known_patterns_fixed(
             egp_variations_replaced(arabic_digits_converted(text))))

\* OCRPostProcessor.fix_currency
fix_currency(text) ==
    IF upper(text) = EGP \/ startswith(upper(text), EGP \o <<" ">>) THEN text
    ELSE bracket_digit_fixed(known_patterns_fixed(
             arabic_digits_converted(egp_variations_replaced(text))))

----------------------------------------------------------------------------
(* fix_currency on currency codes, alone and followed by an amount *)

\* what OCR reads for the G and the P of a currency code
ConfusedG == {"G", "g", "0", "O", "o", "6", "U+0642", "["}

ConfusedP == {"P", "p", "U+061F", ")"}

\* currency codes: those read with the Arabic-Indic digit 4 for the E, the
\* correct code, and codes misread in Latin characters
CurrencyCodes ==
    {<<"U+0664", g, p>> : g \in ConfusedG, p \in ConfusedP}
        \cup {EGP, <<"e","g","p">>, <<"E","6","P">>, <<"[","6","P">>}

\* what follows the code: nothing, or an amount in Western or Arabic-Indic
\* digits, with or without a space before it
CurrencyAmounts ==
    {<<>>, <<" ","1","2","3",".","4","5">>, <<" ","9","9",".","9","9">>, <<" ","U+0665","U+0666",".","U+0661","U+0664">>, <<"1","2","3">>, <<" ","5">>}

FixCurrencyArguments ==
    {[code |-> code, amount |-> amount, text |-> code \o amount] :
        code \in CurrencyCodes, amount \in CurrencyAmounts}

FixCurrencyInit ==
    /\ PipelineIdle
    /\ argument \in FixCurrencyArguments
    /\ result = NoResult
    /\ Constructed

\* processor.fix_currency(text)
FixCurrency ==
    /\ result = NoResult
    /\ result' = Return(fix_currency(argument.text))
    /\ UNCHANGED <<ocr_results, layout, fields, now, validation_results, calls,
                   argument, max_retries, stats, frames>>

SpecFixCurrency == FixCurrencyInit /\ [][FixCurrency]_vars

\* the amount with its Arabic-Indic digits as Western digits
WesternAmount(amount) ==
    [i \in 1..Len(amount) |->
        IF \E d \in 1..10 : ArabicDigits[d] = amount[i]
        THEN WesternDigits[CHOOSE d \in 1..10 : ArabicDigits[d] = amount[i]]
        ELSE amount[i]]

\* C20: a currency code whose first character is the Arabic-Indic digit 4
\* standing for 'E', followed by G and P or their known confusions, alone or
\* followed by an amount, is rewritten to 'EGP' and never to '4GP'; a text
\* that is 'EGP' or starts with 'EGP ' is returned unchanged.
C20_CurrencyBeforeDigits ==
    result # NoResult =>
        /\ argument.code[1] = "U+0664" =>
              /\ result.value = EGP \o WesternAmount(argument.amount)
              /\ SubSeq(result.value, 1, 3) # <<"4","G","P">>
        /\ (argument.text = EGP \/ startswith(argument.text, <<"E","G","P"," ">>)) =>
              result.value = argument.text

\* '٤GP 123.45' becomes 'EGP 123.45'
C20_Witness ==
    /\ argument.text = <<"U+0664","G","P"," ","1","2","3",".","4","5">>
    /\ result = Return(<<"E","G","P"," ","1","2","3",".","4","5">>)

\* '٤G؟ 99.99' becomes 'EGP 99.99'
C20_WitnessQuestionMark ==
    /\ argument.text = <<"U+0664","G","U+061F"," ","9","9",".","9","9">>
    /\ result = Return(<<"E","G","P"," ","9","9",".","9","9">>)

\* 'EGP ٥٦.١٤' is returned as it is, its digits included
C20_WitnessUnchanged ==
    /\ argument.text = <<"E","G","P"," ","U+0665","U+0666",".","U+0661","U+0664">>
    /\ result = Return(<<"E","G","P"," ","U+0665","U+0666",".","U+0661","U+0664">>)

\* the subtotal that Strategy 2 of extract_amounts calculates
CalculatedSubtotal(total, tax) ==
    [value |-> Some(DecSub(Val(total.value), Val(tax.value))),
     confidence |-> Min(total.confidence, tax.confidence),
     source |-> Some("calculated"),
     zone |-> Some("totals")]

\* no subtotal is found by keyword search or in a key-value pair
NoSubtotalFound(els, lay) ==
    /\ amount_by_keyword(els, lay.zones["totals"], keywords_of("subtotal")).value = None
    /\ amount_by_pair(els, keywords_of("subtotal"), lay.key_value_pairs, no_value).value = None

\* C21: in the result of extract_amounts, whenever total and tax both have
\* values, total - tax > 0 and no subtotal was found by keyword search or
\* key-value pair, subtotal is total - tax with confidence
\* min(total.confidence, tax.confidence) and source 'calculated'; a subtotal
\* with source 'calculated' is strictly positive.
C21_CalculatedSubtotal ==
    fields # NoFields =>
        /\ (/\ fields.amounts.total.value # None
            /\ fields.amounts.tax.value # None
            /\ DecPositive(DecSub(Val(fields.amounts.total.value),
                                  Val(fields.amounts.tax.value)))
            /\ NoSubtotalFound(ocr_results, analyze(ocr_results)))
           => fields.amounts.subtotal =
                  CalculatedSubtotal(fields.amounts.total, fields.amounts.tax)
        /\ (/\ "source" \in DOMAIN fields.amounts.subtotal
            /\ fields.amounts.subtotal.source = Some("calculated"))
           => DecPositive(Val(fields.amounts.subtotal.value))

\* 'Tax:' and '15.00' in the totals zone, 'Amount Due:' and '230.00' above
\* it: the total comes from the pair, after Strategy 2 has run, and the
\* subtotal stays without a value
C21_Observed ==
    /\ ocr_results = Pick(AmountsCatalogue, {3, 4, 6, 7})
    /\ fields # NoFields
    /\ fields.amounts.total.value = Some(Dec(230, 0))
    /\ fields.amounts.total.source = Some("key_value_pair")
    /\ fields.amounts.tax.value = Some(Dec(15, 0))
    /\ NoSubtotalFound(ocr_results, analyze(ocr_results))
    /\ fields.amounts.subtotal = no_value

\* total 115.00 and tax 15.00 by keyword: subtotal 100.00, calculated
C21_ObservedCalculated ==
    /\ ocr_results = Pick(AmountsCatalogue, {1, 2, 3, 4})
    /\ fields # NoFields
    /\ fields.amounts.subtotal =
           [value |-> Some(Dec(100, 0)), confidence |-> 955,
            source |-> Some("calculated"), zone |-> Some("totals")]

\* total 115.00 and tax 120.00: nothing is calculated
C21_ObservedNotPositive ==
    /\ ocr_results = Pick(AmountsCatalogue, {1, 2, 8})
    /\ fields # NoFields
    /\ fields.amounts.total.value = Some(Dec(115, 0))
    /\ fields.amounts.tax.value = Some(Dec(120, 0))
    /\ fields.amounts.subtotal = no_value

\* what holds: when total and tax are found by keyword search
C21_CalculatedAfterKeywordSearch ==
    fields # NoFields =>
        LET found == amounts_by_keyword(ocr_results, analyze(ocr_results).zones["totals"])
        IN  (/\ found.total.value # None
             /\ found.tax.value # None
             /\ found.subtotal.value = None
             /\ DecPositive(DecSub(Val(found.total.value), Val(found.tax.value))))
            => fields.amounts.subtotal = CalculatedSubtotal(found.total, found.tax)

----------------------------------------------------------------------------
(* The tables specification: analyze applied to documents whose elements lie
   in the items zone *)

\* x-centres 300 and 302 round to the same bucket; y-centres 400 and 410
\* are one line, 500 and 600 a line each
TablePool ==
    << [text |-> T_Amount, x |-> 300, y |-> 400, confidence |-> 990],
       [text |-> T_Amount, x |-> 302, y |-> 410, confidence |-> 990],
       [text |-> T_Amount, x |-> 500, y |-> 400, confidence |-> 990],
       [text |-> T_Amount, x |-> 300, y |-> 500, confidence |-> 990],
       [text |-> T_Amount, x |-> 500, y |-> 500, confidence |-> 990],
       [text |-> T_Amount, x |-> 700, y |-> 500, confidence |-> 990],
       [text |-> T_Amount, x |-> 302, y |-> 600, confidence |-> 990],
       [text |-> T_Amount, x |-> 500, y |-> 600, confidence |-> 990],
       [text |-> T_Amount, x |-> 700, y |-> 600, confidence |-> 990],
       [text |-> T_Amount, x |-> 700, y |-> 700, confidence |-> 990] >>

MaxTableElems == 5

TableInputs ==
    {Pick(TablePool, S) : S \in {T \in SUBSET (1..Len(TablePool)) : Cardinality(T) <= MaxTableElems}}

TablesInit ==
    /\ ocr_results \in TableInputs
    /\ layout = NoLayout
    /\ fields = NoFields
    /\ now = ExampleDay
    /\ validation_results = <<>>
    /\ calls = <<>>
    /\ argument = NoArgument
    /\ result = NoResult
    /\ Constructed

SpecTables == TablesInit /\ [][LayoutNext]_vars

\* the rounded x-centre of an element
BucketOf(i) == round2(ocr_results[i].x)

\* the elements of a table
TableElements(table) ==
    UNION {Range(table.rows[r].elements) : r \in 1..Len(table.rows)}

\* the lines of a table that hold an element of a bucket
LinesWithBucket(table, bucket) ==
    {r \in 1..Len(table.rows) :
        \E i \in Range(table.rows[r].elements) : BucketOf(i) = bucket}

\* a mean is the mean of the x-centres of a bucket's elements
IsMeanOfBucket(m, table, bucket) ==
    LET members == {i \in TableElements(table) : BucketOf(i) = bucket}
    IN  /\ m.n = Cardinality(members)
        /\ \E order \in [1..m.n -> members] :
              /\ \A a, b \in 1..m.n : a # b => order[a] # order[b]
              /\ m.sum = SumSeq([k \in 1..m.n |-> ocr_results[order[k]].x])

\* the column positions are in ascending order
ColumnsAscending(table) ==
    \A k \in 1..(Len(table.column_positions) - 1) :
        ~ MeanLess(table.column_positions[k + 1], table.column_positions[k])

\* C22: a table column position is emitted for a rounded x-center bucket
\* only if that bucket occurs in at least 50% of the table's lines, and the
\* emitted column positions are sorted ascending.
C22_ColumnsRecurInHalfTheLines ==
    Analyzed =>
        \A t \in 1..Len(layout.tables) :
            /\ \A k \in 1..Len(layout.tables[t].column_positions) :
                  \E i \in TableElements(layout.tables[t]) :
                      /\ IsMeanOfBucket(layout.tables[t].column_positions[k],
                                        layout.tables[t], BucketOf(i))
                      /\ 2 * Cardinality(LinesWithBucket(layout.tables[t], BucketOf(i)))
                             >= Len(layout.tables[t].rows)
            /\ ColumnsAscending(layout.tables[t])

\* x-centres 0.300 and 0.302 in the first of three lines, 0.5 and 0.7 alone
\* in the other two: the one column position is 0.301, of a bucket that
\* occurs in one line of three
C22_Observed ==
    /\ ocr_results = Pick(TablePool, {1, 2, 5, 9})
    /\ Analyzed
    /\ Len(layout.tables) = 1
    /\ Len(layout.tables[1].rows) = 3
    /\ layout.tables[1].column_positions = <<[sum |-> 602, n |-> 2]>>
    /\ LinesWithBucket(layout.tables[1], 300) = {1}

\* what holds: a column position is the mean of a bucket that holds at
\* least half as many elements as the table has lines, in ascending order
C22_ColumnsOfLargeBuckets ==
    Analyzed =>
        \A t \in 1..Len(layout.tables) :
            /\ \A k \in 1..Len(layout.tables[t].column_positions) :
                  /\ 2 * layout.tables[t].column_positions[k].n
                         >= Len(layout.tables[t].rows)
                  /\ \E i \in TableElements(layout.tables[t]) :
                        IsMeanOfBucket(layout.tables[t].column_positions[k],
                                       layout.tables[t], BucketOf(i))
            /\ ColumnsAscending(layout.tables[t])

----------------------------------------------------------------------------
(* The invoice number and the dates given to validate_all *)

\* invoice numbers: absent, empty, of two, of three and of twelve characters
InvoiceNumberCases ==
    { None, Some(<<>>), Some(<<"A","B">>), Some(<<"I","N","V">>), Some(T_InvoiceNumber) }

\* confidences about the warning threshold of 0.7
InvoiceNumberConfidences == { 0, 699, 700, 900 }

\* a date as extracted: absent, a date, a later date, and three texts
\* datetime.strptime(value, '%Y-%m-%d') rejects
HeaderDates ==
    { None, Some(T_InvoiceDate), Some(<<"2","0","2","4","-","0","2","-","1","5">>),
      Some(<<"1","5","/","0","1","/","2","0","2","4">>),
      Some(<<"2","0","2","4","-","1","3","-","0","1">>),
      Some(<<"2","0","2","4","-","0","2","-","3","0">>) }

HeaderInput(number, confidence, invoice_date, due_date) ==
    [GoodInvoice EXCEPT
        !.invoice_number = IF number = None THEN no_invoice_number
                           ELSE Field(Val(number), confidence),
        !.dates.invoice_date = TextField(invoice_date),
        !.dates.due_date = TextField(due_date)]

HeaderInputs ==
    {HeaderInput(n, c, i, d) :
        n \in InvoiceNumberCases, c \in InvoiceNumberConfidences,
        i \in HeaderDates, d \in HeaderDates}

HeaderInit ==
    /\ ocr_results = <<>>
    /\ layout = NoLayout
    /\ fields \in HeaderInputs
    /\ now \in Todays
    /\ validation_results = <<>>
    /\ calls = <<>>
    /\ argument = NoArgument
    /\ result = NoResult
    /\ Constructed

SpecHeader == HeaderInit /\ [][ValidateFields]_vars

\* the results the run's invoice number check and date checks (the second
\* and the third check group) emitted about one field, in the order of
\* emission
ResultsAbout(field) ==
    SelectSeq(ResultsOfGroup(2, fields, now, validation_results)
                  \o ResultsOfGroup(3, fields, now, validation_results),
              LAMBDA r : r.field = field)

\* one of the results about the field has this severity and this message
Emitted(field, severity, message) ==
    \E k \in 1..Len(validation_results) :
        /\ validation_results[k].field = field
        /\ validation_results[k].severity = severity
        /\ validation_results[k].message[1] = message

\* C23: the info result 'Invoice number validated' is never emitted in a run
\* that also emitted the too-short warning.
C23_ValidatedOnlyOtherwise ==
    calls # <<>> =>
        ~ ( /\ Emitted("invoice_number", "info", "Invoice number validated")
            /\ Emitted("invoice_number", "warning", "Invoice number seems too short") )

\* the invoice number 'AB' of confidence 0.9: the too-short warning and
\* the info result, in this order
C23_Observed ==
    /\ calls # <<>>
    /\ fields.invoice_number = Field(<<"A","B">>, 900)
    /\ Len(ResultsAbout("invoice_number")) = 2
    /\ ResultsAbout("invoice_number")[1].severity = "warning"
    /\ ResultsAbout("invoice_number")[1].message[1] = "Invoice number seems too short"
    /\ ResultsAbout("invoice_number")[2].severity = "info"
    /\ ResultsAbout("invoice_number")[2].message[1] = "Invoice number validated"

\* what the check does emit: an error and nothing else for a missing number;
\* otherwise the too-short warning exactly when the number has fewer than
\* three characters, followed by the low-confidence warning when the
\* confidence is below 0.7 and by the info result when it is not
C23_InvoiceNumberResults ==
    calls # <<>> =>
        LET number == fields.invoice_number
            about == ResultsAbout("invoice_number")
            last == about[Len(about)]
        IN  IF ~ Present(number.value)
            THEN /\ Len(about) = 1
                 /\ about[1].severity = "error"
                 /\ about[1].message[1] = "Invoice number is missing"
            ELSE /\ Len(about) = (IF Len(Val(number.value)) < 3 THEN 2 ELSE 1)
                 /\ Len(Val(number.value)) < 3 =>
                        /\ about[1].severity = "warning"
                        /\ about[1].message[1] = "Invoice number seems too short"
                 /\ IF number.confidence < 700
                    THEN /\ last.severity = "warning"
                         /\ last.message[1] = "Low confidence for invoice number"
                    ELSE /\ last.severity = "info"
                         /\ last.message[1] = "Invoice number validated"

\* C24: a present date value that does not parse as YYYY-MM-DD yields an
\* error-severity result, for due_date as well as for invoice_date.
C24_UnparsableDateIsError ==
    calls # <<>> =>
        /\ (Present(fields.dates.invoice_date.value)
              /\ strptime(Val(fields.dates.invoice_date.value)) = None)
           => Emitted("dates.invoice_date", "error", "Invalid date format")
        /\ (Present(fields.dates.due_date.value)
              /\ strptime(Val(fields.dates.due_date.value)) = None)
           => Emitted("dates.due_date", "error", "Invalid date format")

\* the due date '15/01/2024' with the invoice date '2024-01-15': one result
\* about the due date, a warning
C24_Observed ==
    /\ calls # <<>>
    /\ fields.dates.invoice_date.value = Some(T_InvoiceDate)
    /\ fields.dates.due_date.value = Some(<<"1","5","/","0","1","/","2","0","2","4">>)
    /\ Len(ResultsAbout("dates.due_date")) = 1
    /\ ResultsAbout("dates.due_date")[1].severity = "warning"
    /\ ResultsAbout("dates.due_date")[1].message[1] = "Invalid date format"
    /\ ~ ResultsAbout("dates.due_date")[1].is_valid

\* an invoice date that does not parse, observed with its error
C24_ObservedInvoiceDate ==
    /\ calls # <<>>
    /\ fields.dates.invoice_date.value = Some(<<"2","0","2","4","-","1","3","-","0","1">>)
    /\ ResultsAbout("dates.invoice_date")[1].severity = "error"

\* what holds: the only result about a present date that does not parse is
\* 'Invalid date format' with is_valid false, an error for the invoice date
\* and a warning for the due date
C24_UnparsableDateResults ==
    calls # <<>> =>
        /\ (Present(fields.dates.invoice_date.value)
              /\ strptime(Val(fields.dates.invoice_date.value)) = None)
           => /\ Len(ResultsAbout("dates.invoice_date")) = 1
              /\ ResultsAbout("dates.invoice_date")[1].severity = "error"
              /\ ResultsAbout("dates.invoice_date")[1].message[1] = "Invalid date format"
              /\ ~ ResultsAbout("dates.invoice_date")[1].is_valid
        /\ (Present(fields.dates.due_date.value)
              /\ strptime(Val(fields.dates.due_date.value)) = None)
           => /\ Len(ResultsAbout("dates.due_date")) = 1
              /\ ResultsAbout("dates.due_date")[1].severity = "warning"
              /\ ResultsAbout("dates.due_date")[1].message[1] = "Invalid date format"
              /\ ~ ResultsAbout("dates.due_date")[1].is_valid

----------------------------------------------------------------------------
(* SimpleExtractor: the total of a document *)

\* self.total_keywords
simple_total_keywords ==
    << <<"t","o","t","a","l">>,
       <<"g","r","a","n","d"," ","t","o","t","a","l">>,
       <<"n","e","t"," ","t","o","t","a","l">>,
       <<"a","m","o","u","n","t"," ","d","u","e">>,
       <<"U+0627","U+0644","U+0645","U+062C","U+0645","U+0648","U+0639">>,
       <<"U+0627","U+0644","U+0625","U+062C","U+0645","U+0627","U+0644","U+064A">>,
       <<"U+0627","U+0644","U+0645","U+0628","U+0644","U+063A">>,
       <<"U+0627","U+0644","U+0643","U+0644","U+064A">>,
       <<"U+0627","U+0644","U+0645","U+0637","U+0644","U+0648","U+0628">>,
       <<"U+0627","U+0644","U+0645","U+0628","U+0644","U+063A"," ","U+0627","U+0644","U+0645","U+0633","U+062A","U+062D","U+0642">>,
       <<"U+0627","U+0644","U+0635","U+0627","U+0641","U+064A">> >>

\* self.amount_pattern = \b\d{1,3}(?:[,\s]\d{3})*(?:[.,]\d{2})?\b
re_simple_amount ==
    ReSeq(<<ReWB, ReRep(ReCls(ReDigit), 1, 3),
        ReStar(ReSeq(<<ReCls(ReSpace \cup {","}), ReRep(ReCls(ReDigit), 3,
        3)>>)), ReOpt(ReSeq(<<ReCls({".",","}), ReRep(ReCls(ReDigit), 2,
        2)>>)), ReWB>>)

\* [EGP$£€¥₹₪﷼] (re.IGNORECASE)
re_simple_currency ==
    ReCls({"E","G","P","$","U+00A3","U+20AC","U+00A5","U+20B9","U+20AA","U+FDFC"})

\* SimpleExtractor._parse_amount: the float, or None.  Spaces and commas
\* are removed from the match before anything else, so the branch for a
\* string holding both '.' and ',' is never taken.
simple_parse_amount(text) ==
    LET cleaned == strip(re_sub_empty(re_simple_currency, strip(text), TRUE))
        match == Search(re_simple_amount, cleaned, FALSE)
        amount_str == remove_char(remove_char(Group0(match, cleaned), " "), ",")
    IN  IF ~ match.found THEN None
        ELSE IF float_parses(amount_str) THEN Some(float_value(amount_str))
        ELSE None

\* `if amount:` of an Optional[float]
simple_amount_found(text) ==
    simple_parse_amount(text) # None /\ Val(simple_parse_amount(text)) # Zero

\* the candidates of the window around the keyword element i (1-based):
\* range(max(0, i - 1), min(len(ocr_results), i + 5)) of the 0-based index
simple_window_candidates(els, i) ==
    LET from == IF i - 1 > 1 THEN i - 1 ELSE 1
        to == IF i + 4 < Len(els) THEN i + 4 ELSE Len(els)
    IN  { [amount |-> Val(simple_parse_amount(els[j].text)),
           conf |-> IF "." \in Range(els[j].text) THEN 1000 ELSE 600] :
            j \in {j \in from..to : simple_amount_found(els[j].text)} }

\* the candidates near the elements that hold a total keyword
simple_total_candidates(els) ==
    UNION { simple_window_candidates(els, i) :
              i \in {i \in 1..Len(els) : AnyIn(simple_total_keywords, lower(els[i].text))} }

\* the key (conf, amount) of a candidate is not above the other's
simple_key_leq(c, d) ==
    c.conf < d.conf \/ (c.conf = d.conf /\ ~ DecLess(d.amount, c.amount))

\* 0.5 < v < 50000
in_price_range(v) == Cents(v) > 50 /\ Cents(v) < 5000000

\* an exception leaves the call
Raised(exception) == [raised |-> exception]

\* SimpleExtractor._extract_total: what the call returns, or the exception
\* that leaves it.  max() of an empty list raises ValueError.
simple_extract_total(els) ==
    LET candidates == simple_total_candidates(els)
        best == CHOOSE c \in candidates : \A d \in candidates : simple_key_leq(d, c)
        all_vals == { Val(simple_parse_amount(els[k].text)) :
                        k \in {k \in 1..Len(els) : simple_amount_found(els[k].text)} }
        in_range == { v \in all_vals : in_price_range(v) }
    IN  IF candidates # {} THEN Return(Some(best.amount))
        ELSE IF all_vals = {} THEN Return(None)
        ELSE IF in_range = {} THEN Raised("ValueError")
        ELSE Return(Some(CHOOSE v \in in_range : \A u \in in_range : ~ DecLess(v, u)))

\* the texts of the elements: a total keyword, a word, amounts within the
\* price range, at its two ends and outside it, and a zero
SimpleTexts ==
    { <<"T","o","t","a","l",":">>, <<"I","t","e","m">>,
      <<"1","2",".","5","0">>, <<"3","0","0">>, <<"E","G","P"," ","7","5">>,
      <<"0",".","5","0">>, <<"0",".","5","1">>, <<"5","0",",","0","0","0">>,
      <<"4","9",",","9","9","9",".","9","9">>, <<"6","0",",","0","0","0">>,
      <<"0",".","0","0">> }

MaxSimpleElems == 3

\* the element lists: element k on the k-th line of the page
SimpleInputs ==
    UNION { [1..n -> SimpleTexts] : n \in 0..MaxSimpleElems }

SimpleElements(texts) ==
    Tuple([k \in 1..Len(texts) |->
        [text |-> texts[k], x |-> 100, y |-> 100 * k, confidence |-> 900]])

SimpleInit ==
    /\ ocr_results \in {SimpleElements(texts) : texts \in SimpleInputs}
    /\ layout = NoLayout
    /\ fields = NoFields
    /\ now = ExampleDay
    /\ validation_results = <<>>
    /\ calls = <<>>
    /\ argument = NoArgument
    /\ result = NoResult
    /\ Constructed

\* self._extract_total(ocr_results)
ExtractTotal ==
    /\ result = NoResult
    /\ result' = simple_extract_total(ocr_results)
    /\ UNCHANGED <<ocr_results, layout, fields, now, validation_results, calls,
                   argument, max_retries, stats, frames>>

SpecSimpleTotal == SimpleInit /\ [][ExtractTotal]_vars

\* the amounts of the document that lie strictly between 0.5 and 50000
AmountsInRange ==
    { v \in { Val(simple_parse_amount(ocr_results[k].text)) :
                k \in {k \in 1..Len(ocr_results) :
                          simple_amount_found(ocr_results[k].text)} } :
        DecLess(Dec(0, 50), v) /\ DecLess(v, Dec(50000, 0)) }

NoKeywordCandidate == simple_total_candidates(ocr_results) = {}

\* C25: when no total keyword yields a candidate, _extract_total returns
\* the maximum of the amounts strictly between 0.5 and 50000, and returns
\* None without raising when no amount is in that range.
C25_FallbackTotal ==
    (result # NoResult /\ NoKeywordCandidate) =>
        IF AmountsInRange = {} THEN result = Return(None)
        ELSE /\ "value" \in DOMAIN result
             /\ result.value # None
             /\ Val(result.value) \in AmountsInRange
             /\ \A v \in AmountsInRange : ~ DecLess(Val(result.value), v)

\* the one element '60,000': an amount, none in range, and the call is left
\* by ValueError
C25_Observed ==
    /\ Len(ocr_results) = 1
    /\ ocr_results[1].text = <<"6","0",",","0","0","0">>
    /\ simple_parse_amount(ocr_results[1].text) = Some(Dec(60000, 0))
    /\ NoKeywordCandidate
    /\ result = Raised("ValueError")

\* the fallback returning the maximum in range: 'Item', '300', '12.50'
C25_ObservedMaximum ==
    /\ Len(ocr_results) = 3
    /\ ocr_results[2].text = <<"3","0","0">>
    /\ ocr_results[3].text = <<"1","2",".","5","0">>
    /\ NoKeywordCandidate
    /\ result = Return(Some(Dec(300, 0)))

\* what holds: without a keyword candidate the call returns the maximum of
\* the amounts in range when there is one, returns None when the document
\* holds no amount other than zero, and raises ValueError when it holds
\* such amounts and none of them is in range
C25_FallbackTotalOrValueError ==
    (result # NoResult /\ NoKeywordCandidate) =>
        IF AmountsInRange # {}
        THEN /\ "value" \in DOMAIN result
             /\ result.value # None
             /\ Val(result.value) \in AmountsInRange
             /\ \A v \in AmountsInRange : ~ DecLess(Val(result.value), v)
        ELSE IF \E k \in 1..Len(ocr_results) : simple_amount_found(ocr_results[k].text)
        THEN result = Raised("ValueError")
        ELSE result = Return(None)

----------------------------------------------------------------------------
(* Claims about the metadata of extract_all_fields, checked under SpecStrategies *)

\* the top-level fields of the nine that hold an extracted value: a value
\* of the field itself or of one of its sub-fields, or a list that is not
\* empty
FieldsHoldingValue(extracted) ==
    { f \in { "invoice_number", "dates", "amounts", "tax_info", "vendor_info",
              "customer_info", "line_items", "currency", "payment_terms" } :
        CASE f = "invoice_number" -> extracted.invoice_number.value # None
          [] f = "dates" -> \/ extracted.dates.invoice_date.value # None
                            \/ extracted.dates.due_date.value # None
                            \/ extracted.dates.other_dates # <<>>
          [] f = "amounts" -> \/ extracted.amounts.total.value # None
                              \/ extracted.amounts.subtotal.value # None
                              \/ extracted.amounts.tax.value # None
                              \/ extracted.amounts.discount.value # None
          [] f = "tax_info" -> \/ extracted.tax_info.tax_id.value # None
                               \/ extracted.tax_info.tax_percentage.value # None
          [] f = "vendor_info" -> \/ extracted.vendor_info.name.value # None
                                  \/ extracted.vendor_info.address.value # <<>>
                                  \/ extracted.vendor_info.phone.value # None
                                  \/ extracted.vendor_info.email.value # None
          [] f = "customer_info" -> \/ extracted.customer_info.name.value # None
                                    \/ extracted.customer_info.address.value # <<>>
          [] f = "line_items" -> extracted.line_items # <<>>
          [] f = "currency" -> extracted.currency.value # None
          [] f = "payment_terms" -> extracted.payment_terms.value # None }

\* C26: metadata.fields_extracted equals the number of the nine top-level
\* fields that actually hold an extracted value; for the empty element list
\* it is 1.
C26_FieldsExtractedCountsValues ==
    fields # NoFields =>
        /\ fields.metadata.fields_extracted = Cardinality(FieldsHoldingValue(fields))
        /\ ocr_results = <<>> => fields.metadata.fields_extracted = 1

\* the empty element list: the currency alone holds a value, the default
\* 'USD', and fields_extracted is 8
C26_Observed ==
    /\ ocr_results = <<>>
    /\ fields # NoFields
    /\ FieldsHoldingValue(fields) = {"currency"}
    /\ fields.currency.value = Some(USD)
    /\ fields.metadata.fields_extracted = 8

\* the two rows of the items catalogue: two line items, fewer than nine
\* fields with a value, and fields_extracted is 9
C26_ObservedNine ==
    /\ ocr_results = ItemsCatalogue
    /\ fields # NoFields
    /\ Len(fields.line_items) = 2
    /\ Cardinality(FieldsHoldingValue(fields)) < 9
    /\ fields.metadata.fields_extracted = 9

\* what holds: fields_extracted counts the eight dictionaries, which are
\* never empty, and the line item list when it has an item
C26_FieldsExtractedCountsContainers ==
    fields # NoFields =>
        /\ fields.metadata.fields_extracted
               = 8 + Cardinality(FieldsHoldingValue(fields) \cap {"line_items"})
        /\ fields.metadata.fields_extracted >= Cardinality(FieldsHoldingValue(fields))
        /\ fields.metadata.total_fields = 9

----------------------------------------------------------------------------
(* Claims about the report of validate_all, checked under SpecHeader *)

\* the lists of the report a result of all_results appears in
ListsHolding(report, r) ==
    { name \in {"errors", "warnings", "info"} :
        CASE name = "errors" -> \E k \in 1..Len(report.errors) : report.errors[k] = r
          [] name = "warnings" -> \E k \in 1..Len(report.warnings) : report.warnings[k] = r
          [] name = "info" -> \E k \in 1..Len(report.info) : report.info[k] = r }

\* C27: every validation result appears in exactly one of the report's
\* lists errors, warnings and info, so that summary.errors +
\* summary.warnings + summary.info = summary.total_checks.
C27_ResultsPartitioned ==
    calls # <<>> =>
        LET report == calls[1].report
        IN  /\ \A k \in 1..Len(report.all_results) :
                   Cardinality(ListsHolding(report, report.all_results[k])) = 1
            /\ report.summary.errors + report.summary.warnings + report.summary.info
                   = report.summary.total_checks

\* an invoice number of confidence 0.699: its low-confidence warning has
\* is_valid true and is in none of the three lists, and the three counts
\* add up to one less than total_checks
C27_Observed ==
    /\ calls # <<>>
    /\ fields.invoice_number = Field(T_InvoiceNumber, 699)
    /\ \E k \in 1..Len(calls[1].report.all_results) :
           LET r == calls[1].report.all_results[k]
           IN  /\ r.field = "invoice_number"
               /\ r.severity = "warning"
               /\ r.is_valid
               /\ ListsHolding(calls[1].report, r) = {}
    /\ calls[1].report.summary.errors + calls[1].report.summary.warnings
           + calls[1].report.summary.info = calls[1].report.summary.total_checks - 1

\* a run whose results are all in a list: the counts add up
C27_ObservedPartitioned ==
    /\ calls # <<>>
    /\ fields.invoice_number = Field(T_InvoiceNumber, 900)
    /\ calls[1].report.summary.total_checks > 0
    /\ calls[1].report.summary.errors + calls[1].report.summary.warnings
           + calls[1].report.summary.info = calls[1].report.summary.total_checks

\* the results of severity error or warning whose is_valid is true
ValidNotInfo(results) ==
    SelectSeq(results, LAMBDA r : r.severity # "info" /\ r.is_valid)

\* what holds: a result appears in at most one list, in none exactly when
\* it is an error or a warning with is_valid true, and the three counts
\* add up to total_checks less the number of those results
C27_ResultsInAtMostOneList ==
    calls # <<>> =>
        LET report == calls[1].report
        IN  /\ \A k \in 1..Len(report.all_results) :
                   LET r == report.all_results[k]
                   IN  /\ Cardinality(ListsHolding(report, r)) <= 1
                       /\ ListsHolding(report, r) = {}
                              <=> (r.severity # "info" /\ r.is_valid)
            /\ report.summary.errors + report.summary.warnings + report.summary.info
                   = report.summary.total_checks - Len(ValidNotInfo(report.all_results))

----------------------------------------------------------------------------
(* find_currency and the currency check of the validator *)

\* what a text names its currency with: the symbols of
\* currency_patterns['symbols'], the codes of currency_patterns['codes'] in
\* upper case and three of them in lower or mixed case, the names of
\* currency_patterns['arabic'], three codes the pattern does not hold, and
\* nothing
CurrencyTokens ==
    { <<"$">>, <<POUND>>, <<EURO>>, <<YEN>>, <<RUPEE>>, <<SHEQEL>>, <<RIAL_SIGN>> }
    \cup
    {
      <<"S","A","R">>, <<"E","G","P">>, <<"U","S","D">>, <<"E","U","R">>, <<"G","B","P">>,
      <<"A","E","D">>, <<"Q","A","R">>, <<"K","W","D">>, <<"O","M","R">>, <<"B","H","D">>,
      <<"J","O","D">>, <<"L","B","P">>, <<"S","Y","P">>, <<"I","Q","D">> }
    \cup { <<"s","a","r">>, <<"E","g","p">>, <<"l","b","p">> }
    \cup
    {
      <<"U+0631","U+064A","U+0627","U+0644">>, <<"U+062C","U+0646","U+064A","U+0647">>,
      <<"U+062F","U+064A","U+0646","U+0627","U+0631">>, <<"U+062F","U+0631","U+0647","U+0645">>,
      <<"U+0644","U+064A","U+0631","U+0629">> }
    \cup { <<"I","L","S">>, <<"J","P","Y">>, <<"T","R","Y">>, <<>> }

CurrencyPrefixes == { <<>>, <<"T","o","t","a","l",":"," ">> }

\* nothing, an amount, and a later symbol or code
CurrencySuffixes == { <<>>, <<" ","1","0","0">>, <<" ","$">>, <<" ","K","W","D">> }

\* the texts find_currency is called with
CurrencyTexts ==
    {p \o t \o s : p \in CurrencyPrefixes, t \in CurrencyTokens, s \in CurrencySuffixes}

FindCurrencyInit ==
    /\ PipelineIdle
    /\ argument \in CurrencyTexts
    /\ result = NoResult
    /\ Constructed

\* self.patterns.find_currency(full_text)
FindCurrency ==
    /\ result = NoResult
    /\ result' = Return(find_currency(argument))
    /\ UNCHANGED <<ocr_results, layout, fields, now, validation_results, calls,
                   argument, max_retries, stats, frames>>

SpecFindCurrency == FindCurrencyInit /\ [][FindCurrency]_vars

\* the result of _validate_currency for the currency field extract_currency
\* makes of a code
CurrencyCheckOf(code) ==
    validate_currency([value |-> Some(code), confidence |-> currency_confidence,
                       source |-> Some("pattern_match")], <<>>)[1]

\* C28: every currency code find_currency can return is accepted by the
\* whitelist of the validator's currency check.
C28_ReturnedCodeAccepted ==
    result # NoResult =>
        /\ result.value \in valid_currencies
        /\ CurrencyCheckOf(result.value).is_valid

\* the text of the sheqel sign alone: find_currency returns 'ILS', and the
\* currency check answers with the warning 'Unusual currency code'
C28_Observed ==
    /\ argument = <<SHEQEL>>
    /\ result = Return(<<"I","L","S">>)
    /\ ~ CurrencyCheckOf(result.value).is_valid
    /\ CurrencyCheckOf(result.value).severity = "warning"
    /\ CurrencyCheckOf(result.value).message = <<"Unusual currency code", <<"I","L","S">>>>

\* a code in lower case, returned in upper case and accepted
C28_ObservedAccepted ==
    /\ argument = <<"T","o","t","a","l",":"," ","l","b","p"," ","1","0","0">>
    /\ result = Return(<<"L","B","P">>)
    /\ CurrencyCheckOf(result.value).is_valid

\* what holds: the returned code is accepted unless it is 'ILS', which is
\* returned exactly when the first currency symbol of the text is the
\* sheqel sign
C28_ReturnedCodeAcceptedButSheqel ==
    result # NoResult =>
        LET symbols == {i \in 1..Len(argument) :
                           argument[i] \in {"$", POUND, EURO, YEN, RUPEE, SHEQEL, RIAL_SIGN}}
            first_is_sheqel ==
                \E i \in symbols : argument[i] = SHEQEL /\ \A j \in symbols : i <= j
        IN  /\ result.value = <<"I","L","S">> <=> first_is_sheqel
            /\ ~ first_is_sheqel =>
                   /\ result.value \in valid_currencies
                   /\ CurrencyCheckOf(result.value).is_valid

----------------------------------------------------------------------------
(* InvoicePipeline.process_invoice: attempts, retries and the statistics *)

\* what the OCR reads of a complete invoice: header, vendor contact, two
\* rows of items and the totals
CompleteInvoice ==
    << [text |-> <<"I","n","v","o","i","c","e"," ","#",":"," ","I","N","V","-","2","0","2","4","-","0","0","1">>, x |-> 100, y |-> 20, confidence |-> 990],
       [text |-> <<"D","a","t","e",":"," ","2","0","2","4","-","0","1","-","1","5">>, x |-> 80, y |-> 60, confidence |-> 990],
       [text |-> <<"D","u","e"," ","D","a","t","e",":"," ","2","0","2","4","-","0","2","-","1","5">>, x |-> 80, y |-> 100, confidence |-> 990],
       [text |-> <<"P","h","o","n","e",":"," ","+","9","6","6"," ","5","0"," ","1","2","3"," ","4","5","6","7">>, x |-> 100, y |-> 290, confidence |-> 990],
       [text |-> <<"i","n","f","o","@","a","c","m","e",".","c","o","m">>, x |-> 100, y |-> 320, confidence |-> 990],
       [text |-> <<"W","i","d","g","e","t">>, x |-> 100, y |-> 400, confidence |-> 990],
       [text |-> <<"1",",","0","0","0",".","0","0">>, x |-> 500, y |-> 400, confidence |-> 990],
       [text |-> <<"G","a","d","g","e","t">>, x |-> 100, y |-> 500, confidence |-> 990],
       [text |-> <<"8","7",".","0","0">>, x |-> 500, y |-> 500, confidence |-> 990],
       [text |-> <<"S","u","b","t","o","t","a","l",":"," ","1",",","0","8","7",".","0","0">>, x |-> 50, y |-> 780, confidence |-> 990],
       [text |-> <<"T","a","x",":"," ","1","6","3",".","0","0">>, x |-> 50, y |-> 810, confidence |-> 990],
       [text |-> <<"T","o","t","a","l",":"," ","$","1",",","2","5","0",".","0","0">>, x |-> 50, y |-> 850, confidence |-> 990] >>

\* the images process_invoice is called with, and what OCR reads of each
\* when it returns: the complete invoice, the invoice without its item rows,
\* its header alone, and nothing
Images == {"complete", "no_items", "header", "blank"}

DocumentOf(image) ==
    CASE image = "complete" -> CompleteInvoice
      [] image = "no_items" -> Pick(CompleteInvoice, (1..5) \cup (10..12))
      [] image = "header" -> Pick(CompleteInvoice, 1..3)
      [] image = "blank" -> <<>>

\* the days the pipeline of this specification runs on
PipelineDays == {ExampleDay}

\* what steps 2 to 4 of process_invoice leave: the layout, the extracted
\* data, the validator's list and the validation report
run_of(analyzed, extracted, validated) ==
    [layout |-> analyzed,
     extracted_data |-> extracted,
     validation_results |-> validated,
     validation_report |-> generate_report(validated)]

\* step 4, self._validate_data(extracted_data, invoice_id)
validated_run(analyzed, extracted, today) ==
    run_of(analyzed, extracted, validation_results_after(extracted, <<>>, today))

\* step 3, self._extract_fields(ocr_results, layout, invoice_id), and on
extracted_run(elements, analyzed, today) ==
    validated_run(analyzed, extract_fields(elements, analyzed), today)

\* step 2, self._analyze_layout(ocr_results, invoice_id), and on
analyzed_run(elements, today) ==
    extracted_run(elements, analyze(elements), today)

\* steps 2 to 4 on what OCR reads of each image, on each day
PipelineRuns ==
    [image \in Images \ {"blank"}, today \in PipelineDays |->
        analyzed_run(DocumentOf(image), today)]

\* a bound on the attempts counted before a new call is made
MaxProcessed == 3

\* the values of max_retries the pipeline is constructed with
MaxRetries == 2

\* the positions of a process_invoice call: in its try block, in its except
\* block waiting for the call it retried with, and before its finally block
Trying == "try"
Retried == "retried"
Finishing == "finally"

PipelineInit ==
    /\ ocr_results = <<>>
    /\ layout = NoLayout
    /\ fields = NoFields
    /\ now \in PipelineDays
    /\ validation_results = <<>>
    /\ calls = <<>>
    /\ argument = NoArgument
    /\ result = NoResult
    /\ max_retries \in 0..MaxRetries
    /\ stats = NoStats
    /\ frames = <<>>

\* the innermost call
Top == frames[Len(frames)]

\* the calls with the innermost one at position pc and with this status
TopAt(pc, status) ==
    [frames EXCEPT ![Len(frames)].pc = pc, ![Len(frames)].status = status]

\* pipeline.process_invoice(image_path) called from outside
ProcessInvoice(image) ==
    /\ frames = <<>>
    /\ stats.total_processed < MaxProcessed
    /\ frames' = <<[image |-> image, retry_count |-> 0, pc |-> Trying,
                    status |-> "processing"]>>
    /\ result' = NoResult
    /\ UNCHANGED <<ocr_results, layout, fields, now, validation_results, calls,
                   argument, max_retries, stats>>

\* the counter of self.stats for an overall status
counter_of(status) ==
    CASE status = "PASSED" -> "successful"
      [] status = "WARNING" -> "validation_warnings"
      [] OTHER -> "validation_failed"

\* ProcessingStatus for an overall status
status_of(status) ==
    CASE status = "PASSED" -> "success"
      [] status = "WARNING" -> "validation_warning"
      [] OTHER -> "validation_failed"

\* steps 1 to 4 of the try block have run on what OCR read
StepsRun(run) ==
    /\ ocr_results' = DocumentOf(Top.image)
    /\ layout' = run.layout
    /\ fields' = run.extracted_data
    /\ validation_results' = run.validation_results

\* the try block runs to its end: the five steps, then the counter of the
\* validation status
Complete ==
    /\ frames # <<>> /\ Top.pc = Trying
    /\ DocumentOf(Top.image) # <<>>
    /\ LET run == PipelineRuns[Top.image, now]
           overall == run.validation_report.overall_status
       IN  /\ StepsRun(run)
           /\ stats' = [stats EXCEPT ![counter_of(overall)] = @ + 1]
           /\ frames' = TopAt(Finishing, status_of(overall))
    /\ UNCHANGED <<now, calls, argument, result, max_retries>>

\* where the try block is left by an exception: _run_ocr raises, OCR
\* returns no element and ValueError is raised, or _export_results raises
\* after the four steps before it
Failures == {"ocr", "no_results", "export"}

Fails(failure) ==
    /\ frames # <<>> /\ Top.pc = Trying
    /\ failure = "no_results" <=> (failure # "ocr" /\ DocumentOf(Top.image) = <<>>)
    /\ IF failure = "export"
       THEN StepsRun(PipelineRuns[Top.image, now])
       ELSE UNCHANGED <<ocr_results, layout, fields, validation_results>>

\* except: retry_count < self.max_retries, and the call returns what
\* process_invoice(image_path, invoice_id, retry_count + 1) returns
Retry(failure) ==
    /\ Fails(failure)
    /\ Top.retry_count < max_retries
    /\ frames' = Append(TopAt(Retried, Top.status),
                        [image |-> Top.image, retry_count |-> Top.retry_count + 1,
                         pc |-> Trying, status |-> "processing"])
    /\ UNCHANGED <<now, calls, argument, result, max_retries, stats>>

\* except: the retries are used up
GiveUp(failure) ==
    /\ Fails(failure)
    /\ ~ (Top.retry_count < max_retries)
    /\ stats' = [stats EXCEPT !.errors = @ + 1]
    /\ frames' = TopAt(Finishing, "error")
    /\ UNCHANGED <<now, calls, argument, result, max_retries>>

\* finally: the call counts itself and returns, its own result or the one
\* the call it retried with returned
Finally ==
    /\ frames # <<>> /\ Top.pc \in {Finishing, Retried}
    /\ stats' = [stats EXCEPT !.total_processed = @ + 1]
    /\ result' = IF Top.pc = Finishing THEN Return([status |-> Top.status]) ELSE result
    /\ frames' = SubSeq(frames, 1, Len(frames) - 1)
    /\ UNCHANGED <<ocr_results, layout, fields, now, validation_results, calls,
                   argument, max_retries>>

PipelineNext ==
    \/ \E image \in Images : ProcessInvoice(image)
    \/ Complete
    \/ \E failure \in Failures : Retry(failure)
    \/ \E failure \in Failures : GiveUp(failure)
    \/ Finally

SpecPipeline == PipelineInit /\ [][PipelineNext]_vars

\* successful + validation_warnings + validation_failed + errors
Outcomes ==
    stats.successful + stats.validation_warnings + stats.validation_failed
        + stats.errors

\* C29: after any sequence of process_invoice calls, with retries up to
\* max_retries, total_processed = successful + validation_warnings +
\* validation_failed + errors.
C29_TotalIsSumOfOutcomes ==
    frames = <<>> => stats.total_processed = Outcomes

\* one call on the blank image with max_retries 2 has returned the status
\* error: three attempts are counted and one outcome
C29_Observed ==
    /\ frames = <<>>
    /\ max_retries = 2
    /\ result = Return([status |-> "error"])
    /\ stats = [NoStats EXCEPT !.total_processed = 3, !.errors = 1]

\* one call that succeeded at its second attempt
C29_ObservedRetrySucceeded ==
    /\ frames = <<>>
    /\ result = Return([status |-> "success"])
    /\ stats = [NoStats EXCEPT !.total_processed = 2, !.successful = 1]

\* calls without a retry: the counters add up
C29_ObservedWithoutRetry ==
    /\ frames = <<>>
    /\ max_retries = 0
    /\ stats.total_processed = 3
    /\ stats.successful = 1 /\ stats.validation_warnings = 1 /\ stats.errors = 1

\* what holds between calls: every call has one outcome and is counted once
\* for each of its attempts, at most max_retries + 1 of them, so
\* total_processed is the sum of the outcomes only without retries
C29_TotalCountsAttempts ==
    frames = <<>> =>
        /\ Outcomes <= stats.total_processed
        /\ stats.total_processed <= Outcomes * (max_retries + 1)
        /\ max_retries = 0 => stats.total_processed = Outcomes

----------------------------------------------------------------------------
(* Claims about the key-value pairs of analyze, checked under SpecLayout *)

\* the lines of the line grouping that hold the element
LinesHolding(element) ==
    {k \in 1..Len(layout.lines) : element \in Range(layout.lines[k])}

\* C30: for every key-value pair analyze emits, the label element and the
\* value element belong to the same line of the line grouping.
C30_PairsWithinALine ==
    layout # NoLayout =>
        \A p \in 1..Len(layout.key_value_pairs) :
            LET pair == layout.key_value_pairs[p]
            IN  /\ Cardinality(LinesHolding(pair.label)) = 1
                /\ LinesHolding(pair.label) = LinesHolding(pair.value)

\* a pair in a line of three elements whose first and last are further
\* apart than the alignment threshold: the line is held together by the
\* element between them
C30_Witness ==
    /\ layout # NoLayout
    /\ layout.key_value_pairs # <<>>
    /\ \E k \in 1..Len(layout.lines) :
           /\ Len(layout.lines[k]) = 3
           /\ layout.key_value_pairs[1].label \in Range(layout.lines[k])
           /\ layout.key_value_pairs[1].value \in Range(layout.lines[k])
           /\ \E i, j \in Range(layout.lines[k]) :
                  ocr_results[j].y - ocr_results[i].y >= horizontal_alignment_threshold

\* a document of two lines with a pair in one of them
C30_WitnessTwoLines ==
    /\ layout # NoLayout
    /\ Len(layout.lines) = 2
    /\ Len(layout.key_value_pairs) = 1
    /\ ocr_results[layout.key_value_pairs[1].label].y
           # ocr_results[layout.key_value_pairs[1].value].y

=============================================================================
